---------------------------- MODULE Spec2Model ----------------------------
(***************************************************************************)
(* EduCopy: the access-key store (app/services/storage.py) and the bot     *)
(* handlers that drive it (app/handlers/homework.py, admin.py).            *)
(*                                                                         *)
(* Python values are encoded so that TLC can compare them:                 *)
(*   - Optional[T]: None is << >>, a present value v is <<v>>;             *)
(*   - a str the code transforms (a key, a message text) is the sequence   *)
(*     of its characters; a str it only stores is a TLA+ string;           *)
(*   - a dict is a function whose DOMAIN is the dict's key set;            *)
(*   - a timestamp string (datetime.now().isoformat()) is the reading of   *)
(*     the clock it was taken from.                                        *)
(***************************************************************************)
EXTENDS Integers, Sequences, FiniteSets, TLC

(***************************************************************************)
(* Bounds of the model.                                                    *)
(***************************************************************************)
\* users other than the administrator that talk to the bot
NumUsers == 2
\* characters secrets.choice can return for the last position of a key
NumChars == 2
\* the latest time datetime.now() returns; the earliest is 0
MaxClock == 1
\* the longest list of homework elements in a response
MaxElements == 2
\* the largest max_retries a caller of fetch_homeworks passes
MaxRetries == 2

(***************************************************************************)
(* Program constants.                                                      *)
(***************************************************************************)
AdminId == 1034877346

\* max_retries: int = 3
DefaultMaxRetries == 3

ascii_uppercase ==
    << "A", "B", "C", "D", "E", "F", "G", "H", "I", "J", "K", "L", "M",
       "N", "O", "P", "Q", "R", "S", "T", "U", "V", "W", "X", "Y", "Z" >>

ascii_lowercase ==
    << "a", "b", "c", "d", "e", "f", "g", "h", "i", "j", "k", "l", "m",
       "n", "o", "p", "q", "r", "s", "t", "u", "v", "w", "x", "y", "z" >>

digits == << "0", "1", "2", "3", "4", "5", "6", "7", "8", "9" >>

\* chars = string.ascii_uppercase + string.digits
chars == ascii_uppercase \o digits

Whitespace == { " ", "\t", "\n" }

(***************************************************************************)
(* Python primitives.                                                      *)
(***************************************************************************)
None == << >>

Some(v) == << v >>

\* bool(x) of an Optional[int]: None and 0 are falsy
Truthy(opt) == opt # None /\ opt[1] # 0

\* str(user_id)
str(user_id) == ToString(user_id)

EmptyDict == [ x \in {} |-> None ]

\* d[k] = v  (insert or overwrite)
DictSet(d, k, v) == [ x \in (DOMAIN d) \cup {k} |-> IF x = k THEN v ELSE d[x] ]

\* del d[k]
DictDel(d, k) == [ x \in (DOMAIN d) \ {k} |-> d[x] ]

\* c.upper() of one character
UpperChar(c) ==
    IF \E i \in DOMAIN ascii_lowercase : ascii_lowercase[i] = c
    THEN ascii_uppercase[CHOOSE i \in DOMAIN ascii_lowercase : ascii_lowercase[i] = c]
    ELSE c

\* s.upper()
upper(s) == [ i \in DOMAIN s |-> UpperChar(s[i]) ]

RECURSIVE lstrip(_)
lstrip(s) ==
    IF s # << >> /\ Head(s) \in Whitespace THEN lstrip(Tail(s)) ELSE s

RECURSIVE rstrip(_)
rstrip(s) ==
    IF s # << >> /\ s[Len(s)] \in Whitespace
    THEN rstrip(SubSeq(s, 1, Len(s) - 1))
    ELSE s

\* s.strip()
strip(s) == rstrip(lstrip(s))

RECURSIVE join(_, _)
\* sep.join(parts)
join(sep, parts) ==
    IF parts = << >> THEN << >>
    ELSE IF Len(parts) = 1 THEN parts[1]
    ELSE parts[1] \o sep \o join(sep, Tail(parts))

(***************************************************************************)
(* Inputs.                                                                 *)
(***************************************************************************)
\* Telegram user ids are positive
UserIds == {AdminId} \cup (1 .. NumUsers)

\* what secrets.choice(chars) can return in the model
DrawChars == { chars[i] : i \in 1 .. NumChars }

\* the three 4-character groups generate_key can draw
Draws ==
    { << <<"A", "A", "A", "A">>, <<"7", "7", "7", "7">>, <<"Z", "9", "Z", c>> >> :
        c \in DrawChars }

\* every key generate_key can return
KeySpace == { join(<<"-">>, parts) : parts \in Draws }

\* the key as a user may type it: lower case, with blanks around
AsTyped(key) ==
    << " " >> \o [ i \in DOMAIN key |->
        IF \E j \in DOMAIN ascii_uppercase : ascii_uppercase[j] = key[i]
        THEN ascii_lowercase[CHOOSE j \in DOMAIN ascii_uppercase : ascii_uppercase[j] = key[i]]
        ELSE key[i] ] \o << "\n" >>

\* strings passed as a key: the generated keys and one that is never generated
KeyArgs == KeySpace \cup { <<"h", "i">> }

\* message.from_user of a sender: odd ids have set a Telegram username
from_user(user_id) ==
    [ id |-> user_id,
      username |-> IF user_id % 2 = 1 THEN Some(<<"n", "i", "c", "k">>) ELSE None,
      full_name |-> <<"F", "u", "l", "l">> ]

\* the username process_key_input computes from message.from_user
DisplayName(sender) ==
    IF sender.username # None /\ sender.username[1] # << >>
    THEN Some(<<"@">> \o sender.username[1])
    ELSE Some(sender.full_name)

SaveOutcomes == { "ok", "open_failed", "write_failed" }

\* where a kill of the process can fall in _save
KillPoints == { "killed_before_open", "killed_in_write", "killed_after_write" }

VARIABLES
    keys,        \* Storage._data["keys"]
    users,       \* Storage._data["users"]
    disk,        \* the content of data.json
    clock,       \* the latest reading of datetime.now()
    removed,     \* history, kept by SpecHistory: keys that delete_key has deleted
    last,        \* the call of a Storage method that is returning to its caller
    fsm,         \* the FSM state aiogram keeps for each user
    task,        \* per user, the handler that is waiting for its reply to be sent
    fetch,       \* the call of AutheduClient.fetch_homeworks in progress
    parse        \* the call of AutheduClient._parse_homeworks made

vars == << keys, users, disk, clock, removed, last, fsm, task, fetch, parse >>

store == << keys, users, disk, clock >>

bot == << fsm, task >>

client == << fetch, parse >>

(***************************************************************************)
(* Storage (app/services/storage.py).  A method is the relation between    *)
(* the store before the call, its arguments, the store after it and the    *)
(* value it returns (ret).                                                 *)
(***************************************************************************)
NoFile == [ kind |-> "missing", keys |-> EmptyDict, users |-> EmptyDict ]

\* what open(DATA_FILE, "w") leaves when json.dump does not complete
Partial == [ kind |-> "partial", keys |-> EmptyDict, users |-> EmptyDict ]

\* JSON values in data.json: null, a number, a string
JNull == << "null" >>

JNumber(n) == << "number", n >>

JString(s) == << "string", s >>

\* json.dump of an Optional[int] and of an Optional[str]
dump_int(opt) == IF opt = None THEN JNull ELSE JNumber(opt[1])

dump_str(opt) == IF opt = None THEN JNull ELSE JString(opt[1])

\* json.load of a value written by dump_int or dump_str: null is None
load_optional(j) == IF j = JNull THEN None ELSE Some(j[2])

\* json.dump of self._data["keys"]: an object whose members are the tokens
dump_keys(k) ==
    [ t \in DOMAIN k |->
        [ created_at |-> JString(k[t].created_at),
          activated_by |-> dump_int(k[t].activated_by),
          activated_by_username |-> dump_str(k[t].activated_by_username),
          activated_at |-> dump_str(k[t].activated_at) ] ]

\* json.dump of self._data["users"]
dump_users(u) ==
    [ s \in DOMAIN u |->
        [ user_id |-> JNumber(u[s].user_id),
          username |-> dump_str(u[s].username),
          key_used |-> JString(u[s].key_used),
          activated_at |-> JString(u[s].activated_at) ] ]

\* mutant: a _save that writes the keys only
Document_KeysOnly(k, u) ==
    [ kind |-> "json", keys |-> dump_keys(k), users |-> EmptyDict ]

\* data.json as json.dump(self._data, f) writes it in full
Document(k, u) == [ kind |-> "json", keys |-> dump_keys(k), users |-> dump_users(u) ]

\* Storage._save writing the dicts k, u.  An exception is logged and
\* swallowed: open raises and the file stays, or json.dump raises after open
\* has truncated the file.  The process may also be killed in _save: before
\* open, between open and the end of json.dump, or after it.
save(k, u, io) ==
    disk' = CASE io = "ok" -> Document(k, u)
              [] io = "open_failed" -> disk
              [] io = "write_failed" -> Partial
              [] io = "killed_before_open" -> disk
              [] io = "killed_in_write" -> Partial
              [] io = "killed_after_write" -> Document(k, u)

\* Storage._load of the file d: the dicts it leaves in self._data
load(d) ==
    IF d.kind = "json"
    THEN [ keys |->
             [ t \in DOMAIN d.keys |->
                 [ created_at |-> d.keys[t].created_at[2],
                   activated_by |-> load_optional(d.keys[t].activated_by),
                   activated_by_username |-> load_optional(d.keys[t].activated_by_username),
                   activated_at |-> load_optional(d.keys[t].activated_at) ] ],
           users |->
             [ s \in DOMAIN d.users |->
                 [ user_id |-> d.users[s].user_id[2],
                   username |-> load_optional(d.users[s].username),
                   key_used |-> d.users[s].key_used[2],
                   activated_at |-> d.users[s].activated_at[2] ] ] ]
    ELSE [ keys |-> EmptyDict, users |-> EmptyDict ]

\* the dict generate_key stores for a new key
NewKeyData(now) ==
    [ created_at |-> now, activated_by |-> None,
      activated_by_username |-> None, activated_at |-> None ]

\* mutant: generate_key without the test `key not in self._data["keys"]`
generate_key_NoCollisionCheck(parts, now, io, ret) ==
    LET key == join(<<"-">>, parts)
        keys_after == DictSet(keys, key, NewKeyData(now))
    IN  /\ ret = key
        /\ keys' = keys_after
        /\ users' = users
        /\ save(keys_after, users, io)
        /\ clock' = now

\* Storage.generate_key; parts is the draw that leaves the while loop, now
\* what datetime.now() returns, ret the key returned
generate_key(parts, now, io, ret) ==
    LET key == join(<<"-">>, parts)
        keys_after == DictSet(keys, key, NewKeyData(now))
    IN  /\ key \notin DOMAIN keys
        /\ ret = key
        /\ keys' = keys_after
        /\ users' = users
        /\ save(keys_after, users, io)
        /\ clock' = now

\* AccessKey.is_used of a stored key
is_used(key_data) == key_data.activated_by # None

\* mutant: delete_key that leaves the user of an activated key
UsersAfterDelete_KeepsUser(key_data) == users

\* the users dict after delete_key has looked at the key's activated_by
UsersAfterDelete(key_data) ==
    IF Truthy(key_data.activated_by)
    THEN LET user_id == str(key_data.activated_by[1])
         IN  IF user_id \in DOMAIN users THEN DictDel(users, user_id) ELSE users
    ELSE users

\* Storage.delete_key
delete_key(key, io, ret) ==
    IF key \in DOMAIN keys
    THEN LET users_after == UsersAfterDelete(keys[key])
             keys_after == DictDel(keys, key)
         IN  /\ ret = TRUE
             /\ users' = users_after
             /\ keys' = keys_after
             /\ save(keys_after, users_after, io)
             /\ clock' = clock
    ELSE /\ ret = FALSE
         /\ UNCHANGED store

\* mutant: activate_key without the test that the user has no record
ActivateRefused_NoUserCheck(key, user_id) ==
    \/ key \notin DOMAIN keys
    \/ keys[key].activated_by # None

\* mutant: activate_key without the test that the key is unused
ActivateRefused_NoUsedCheck(key, user_id) ==
    \/ key \notin DOMAIN keys
    \/ str(user_id) \in DOMAIN users

\* the three checks of activate_key that return False
ActivateRefused(key, user_id) ==
    \/ key \notin DOMAIN keys
    \/ keys[key].activated_by # None
    \/ str(user_id) \in DOMAIN users

\* mutant: activation that leaves activated_at unset
KeyDataActivated_NoTimestamp(key_data, user_id, username, now) ==
    [ key_data EXCEPT !.activated_by = Some(user_id),
                      !.activated_by_username = username ]

\* the key's dict after activation
KeyDataActivated(key_data, user_id, username, now) ==
    [ key_data EXCEPT !.activated_by = Some(user_id),
                      !.activated_by_username = username,
                      !.activated_at = Some(now) ]

\* the dict stored in users on activation
NewUserData(key, user_id, username, now) ==
    [ user_id |-> user_id, username |-> username,
      key_used |-> key, activated_at |-> now ]

\* mutant: activate_key that marks the key before it tests the user
activate_key_MarksKeyFirst(key, user_id, username, now, io, ret) ==
    IF key \notin DOMAIN keys \/ keys[key].activated_by # None
    THEN /\ ret = FALSE
         /\ UNCHANGED store
    ELSE LET keys_after ==
                 DictSet(keys, key, KeyDataActivated(keys[key], user_id, username, now))
             users_after ==
                 DictSet(users, str(user_id), NewUserData(key, user_id, username, now))
         IN  IF str(user_id) \in DOMAIN users
             THEN /\ ret = FALSE
                  /\ keys' = keys_after
                  /\ clock' = now
                  /\ UNCHANGED << users, disk >>
             ELSE /\ ret = TRUE
                  /\ keys' = keys_after
                  /\ users' = users_after
                  /\ save(keys_after, users_after, io)
                  /\ clock' = now

\* Storage.activate_key; now is what datetime.now() returns
activate_key(key, user_id, username, now, io, ret) ==
    IF ActivateRefused(key, user_id)
    THEN /\ ret = FALSE
         /\ UNCHANGED store
    ELSE LET keys_after ==
                 DictSet(keys, key, KeyDataActivated(keys[key], user_id, username, now))
             users_after ==
                 DictSet(users, str(user_id), NewUserData(key, user_id, username, now))
         IN  /\ ret = TRUE
             /\ keys' = keys_after
             /\ users' = users_after
             /\ save(keys_after, users_after, io)
             /\ clock' = now

\* mutant: is_authorized without the administrator's branch
is_authorized_NoAdmin(user_id) == str(user_id) \in DOMAIN users

\* Storage.is_authorized
is_authorized(user_id) ==
    IF user_id = AdminId THEN TRUE ELSE str(user_id) \in DOMAIN users

\* mutant: an is_admin that every user passes
is_admin_Anyone(user_id) == TRUE

\* Storage.is_admin
is_admin(user_id) == user_id = AdminId

\* Storage.get_user_count
get_user_count == Cardinality(DOMAIN users)

(***************************************************************************)
(* Initial state: Storage(admin_id) constructed with no data.json, no      *)
(* update received yet.                                                    *)
(***************************************************************************)
\* no call is returning
NoCall ==
    [ op |-> "none", key |-> None, user_id |-> None, ret |-> FALSE,
      keys |-> EmptyDict, users |-> EmptyDict, disk |-> NoFile ]

\* no handler of the user is waiting
NoTask == [ handler |-> "none", key |-> None, ret |-> FALSE ]

\* fetch_homeworks has not been called
NoFetch == [ pc |-> "none" ]

\* _parse_homeworks has not been called
NoParse == [ pc |-> "none" ]

Init ==
    /\ keys = EmptyDict
    /\ users = EmptyDict
    /\ disk = NoFile
    /\ clock = 0
    /\ removed = {}
    /\ last = NoCall
    /\ fsm = [ u \in UserIds |-> "none" ]
    /\ task = [ u \in UserIds |-> NoTask ]
    /\ fetch = NoFetch
    /\ parse = NoParse

\* what datetime.now() can return: time does not run backwards
Now == clock .. MaxClock

\* every write of data.json completes
Written == { "ok" }

(***************************************************************************)
(* The store driven through its public methods, one call at a time, by     *)
(* any caller with any arguments.                                          *)
(***************************************************************************)
\* the record of a call: what was called, with what, what it returned
\* (generate_key: TRUE, its key in the key field), and the store and the
\* file as they were when it was called
Call(op, key, user_id, ret) ==
    [ op |-> op, key |-> key, user_id |-> user_id, ret |-> ret,
      keys |-> keys, users |-> users, disk |-> disk ]

GenerateKey(outcomes) ==
    /\ last.op = "none"
    /\ \E parts \in Draws, now \in Now, io \in outcomes, ret \in KeySpace :
        /\ generate_key(parts, now, io, ret)
        /\ last' = Call("generate_key", ret, None, TRUE)
        /\ UNCHANGED << removed, bot, client >>

ActivateKey(outcomes) ==
    /\ last.op = "none"
    /\ \E key \in KeyArgs, user_id \in UserIds, now \in Now, io \in outcomes,
          ret \in BOOLEAN :
        /\ activate_key(key, user_id, DisplayName(from_user(user_id)), now, io, ret)
        /\ last' = Call("activate_key", key, Some(user_id), ret)
        /\ UNCHANGED << removed, bot, client >>

DeleteKey(outcomes) ==
    /\ last.op = "none"
    /\ \E key \in KeyArgs, io \in outcomes, ret \in BOOLEAN :
        /\ delete_key(key, io, ret)
        /\ last' = Call("delete_key", key, None, ret)
        /\ UNCHANGED << removed, bot, client >>

\* DeleteKey, with the deleted key added to the history
DeleteKeyRecorded(outcomes) ==
    /\ last.op = "none"
    /\ \E key \in KeyArgs, io \in outcomes, ret \in BOOLEAN :
        /\ delete_key(key, io, ret)
        /\ last' = Call("delete_key", key, None, ret)
        /\ removed' = IF ret THEN removed \cup {key} ELSE removed
        /\ UNCHANGED << bot, client >>

\* the caller has the result of its call
Return ==
    /\ last.op # "none"
    /\ last' = NoCall
    /\ UNCHANGED << store, removed, bot, client >>

Next ==
    \/ GenerateKey(Written)
    \/ ActivateKey(Written)
    \/ DeleteKey(Written)
    \/ Return

Spec == Init /\ [][Next]_vars

\* the same store, with the history of deleted keys kept
NextHistory ==
    \/ GenerateKey(Written)
    \/ ActivateKey(Written)
    \/ DeleteKeyRecorded(Written)
    \/ Return

SpecHistory == Init /\ [][NextHistory]_vars

\* the same store, where a write of data.json may fail
NextIO ==
    \/ GenerateKey(SaveOutcomes)
    \/ ActivateKey(SaveOutcomes)
    \/ DeleteKey(SaveOutcomes)
    \/ Return

SpecIO == Init /\ [][NextIO]_vars

\* the process is killed in the _save of a mutating call; last holds the
\* store before the call, and keys, users what the call had assigned
Kill ==
    /\ last.op = "none"
    /\ \E io \in KillPoints, now \in Now :
          \/ \E parts \in Draws, ret \in KeySpace :
                /\ generate_key(parts, now, io, ret)
                /\ last' = Call("killed", ret, None, TRUE)
          \/ \E key \in KeySpace, user_id \in UserIds :
                /\ activate_key(key, user_id, DisplayName(from_user(user_id)), now, io, TRUE)
                /\ last' = Call("killed", key, Some(user_id), TRUE)
          \/ \E key \in KeySpace :
                /\ delete_key(key, io, TRUE)
                /\ last' = Call("killed", key, None, TRUE)
    /\ UNCHANGED << removed, bot, client >>

\* the bot is started again: Storage.__init__ loads data.json
Restart ==
    /\ last.op = "killed"
    /\ keys' = load(disk).keys
    /\ users' = load(disk).users
    /\ last' = NoCall
    /\ UNCHANGED << disk, clock, removed, bot, client >>

\* the same store in a process that can be killed and started again
NextCrash ==
    \/ GenerateKey(Written)
    \/ ActivateKey(Written)
    \/ DeleteKey(Written)
    \/ Return
    \/ Kill
    \/ Restart

SpecCrash == Init /\ [][NextCrash]_vars

(***************************************************************************)
(* The bot (main.py, app/handlers).  Dispatcher.start_polling runs the     *)
(* handler of every update as a task of one event loop: a handler runs     *)
(* alone from one await that suspends it to the next.  The FSM storage is  *)
(* the in-memory default, whose awaits do not suspend.  The handlers of     *)
(* different users interleave; the model runs one handler of a user at a   *)
(* time.                                                                   *)
(***************************************************************************)
\* message texts: a key as generated, a key as typed, and other text
Texts == KeySpace \cup { AsTyped(k) : k \in KeySpace } \cup { <<"h", "i">> }

\* callback_data of a button of get_keys_list_keyboard
delete_button(key) == <<"d", "e", "l", "e", "t", "e", "_", "k", "e", "y", ":">> \o key

RECURSIVE after_colon(_)
\* data.split(":", 1)[1]
after_colon(data) ==
    IF Head(data) = ":" THEN Tail(data) ELSE after_colon(Tail(data))

\* mutant: the text is stripped and not put in upper case
key_of_text_AsSent(text) == strip(text)

\* message.text.strip().upper()
key_of_text(text) == upper(strip(text))

\* message.text.strip().upper() of each text
typed_key == [ text \in Texts |-> key_of_text(text) ]

\* c.lower() of one character
LowerChar(c) ==
    IF \E i \in DOMAIN ascii_uppercase : ascii_uppercase[i] = c
    THEN ascii_lowercase[CHOOSE i \in DOMAIN ascii_uppercase : ascii_uppercase[i] = c]
    ELSE c

RECURSIVE Cases(_)
\* a string in every letter case
Cases(s) ==
    IF s = << >> THEN { << >> }
    ELSE { << c >> \o rest : c \in { Head(s), LowerChar(Head(s)) }, rest \in Cases(Tail(s)) }

\* nothing, or one whitespace character
Pads == { << >> } \cup { << w >> : w \in Whitespace }

\* a key as a user may send it: in any letter case, with whitespace around it
Variants(key) == { before \o cased \o after : before \in Pads, cased \in Cases(key), after \in Pads }

\* a key with its last character in lower case and a tab after it
Mixed(key) == SubSeq(key, 1, Len(key) - 1) \o << LowerChar(key[Len(key)]), "\t" >>

\* callback.data.split(":", 1)[1] of each button
button_key == [ shown \in KeySpace |-> after_colon(delete_button(shown)) ]

\* cmd_start: /start from user_id
cmd_start(user_id) ==
    /\ task[user_id] = NoTask
    /\ fsm' = [ fsm EXCEPT ![user_id] =
                  IF is_authorized(user_id) THEN "none" ELSE "waiting_for_key" ]
    /\ UNCHANGED << store, removed, last, task, client >>

\* process_key_input up to `await message.answer`: a text from a user whose
\* FSM state is waiting_for_key
process_key_input(outcomes) ==
    \E user_id \in UserIds :
        /\ task[user_id] = NoTask
        /\ fsm[user_id] = "waiting_for_key"
        /\ \E text \in Texts, now \in Now, io \in outcomes, ret \in BOOLEAN :
              LET key == typed_key[text]
                  username == DisplayName(from_user(user_id))
              IN  /\ activate_key(key, user_id, username, now, io, ret)
                  /\ fsm' = IF ret THEN [ fsm EXCEPT ![user_id] = "none" ] ELSE fsm
                  /\ task' = [ task EXCEPT ![user_id] =
                                 [ handler |-> "process_key_input",
                                   key |-> key, ret |-> ret ] ]
                  /\ UNCHANGED << removed, last, client >>

\* the handlers that await callback.answer("Загружаю...") and then fetch
HomeworkButtons == { "hw_today", "hw_tomorrow", "hw_week" }

\* the reply of a handler has been sent and the handler returns
answer ==
    \E user_id \in UserIds :
        /\ task[user_id] # NoTask
        /\ task[user_id].handler \notin HomeworkButtons
        /\ task' = [ task EXCEPT ![user_id] = NoTask ]
        /\ UNCHANGED << store, removed, last, fsm, client >>

\* admin_create_key: the button "admin_create_key" pressed by user_id
admin_create_key(outcomes) ==
    \E user_id \in UserIds :
        IF ~is_admin(user_id)
        THEN UNCHANGED vars
        ELSE \E parts \in Draws, now \in Now, io \in outcomes, ret \in KeySpace :
                /\ generate_key(parts, now, io, ret)
                /\ UNCHANGED << removed, last, bot, client >>

\* admin_delete_key: a button of a key list pressed; the list was shown now or
\* earlier, so that its key may be gone
admin_delete_key(outcomes) ==
    \E user_id \in UserIds, shown \in KeySpace :
        LET key == button_key[shown]
        IN  IF ~is_admin(user_id)
            THEN UNCHANGED vars
            ELSE \E io \in outcomes, ret \in BOOLEAN :
                    /\ delete_key(key, io, ret)
                    /\ UNCHANGED << removed, last, bot, client >>

NextBot ==
    \/ \E user_id \in UserIds : cmd_start(user_id)
    \/ process_key_input(Written)
    \/ answer
    \/ admin_create_key(Written)
    \/ admin_delete_key(Written)

SpecBot == Init /\ [][NextBot]_vars

(***************************************************************************)
(* The homework handlers (app/handlers/homework.py).  A date is the tuple  *)
(* <<year, month, day>>.                                                   *)
(***************************************************************************)
IsDigits(s) == s # << >> /\ \A i \in DOMAIN s : \E d \in DOMAIN digits : digits[d] = s[i]

RECURSIVE int(_)
\* int(s) of a string of digits
int(s) ==
    IF s = << >> THEN 0
    ELSE 10 * int(SubSeq(s, 1, Len(s) - 1))
         + (CHOOSE d \in DOMAIN digits : digits[d] = s[Len(s)]) - 1

RECURSIVE split(_, _)
\* s.split(sep) for a one-character sep
split(s, sep) ==
    IF \E i \in DOMAIN s : s[i] = sep
    THEN LET i == CHOOSE j \in DOMAIN s : s[j] = sep /\ \A h \in 1 .. j - 1 : s[h] # sep
         IN  << SubSeq(s, 1, i - 1) >> \o split(SubSeq(s, i + 1, Len(s)), sep)
    ELSE << s >>

\* the days of a month of the proleptic Gregorian calendar
DaysIn(year, month) ==
    IF month \in { 4, 6, 9, 11 } THEN 30
    ELSE IF month # 2 THEN 31
    ELSE IF year % 4 = 0 /\ (year % 100 # 0 \/ year % 400 = 0) THEN 29
    ELSE 28

\* date(year, month, day): the date, or None where Python raises ValueError
date(year, month, day) ==
    IF year \in 1 .. 9999 /\ month \in 1 .. 12 /\ day \in 1 .. DaysIn(year, month)
    THEN Some(<< year, month, day >>)
    ELSE None

\* datetime.strptime(text, fmt).date() for the formats of parse_date: fields
\* joined by sep, the year first or last; None where it raises ValueError
strptime(text, sep, year_first) ==
    LET parts == split(text, sep)
    IN  IF Len(parts) # 3 \/ \E i \in 1 .. 3 : ~IsDigits(parts[i]) THEN None
        ELSE LET y == IF year_first THEN parts[1] ELSE parts[3]
                 d == IF year_first THEN parts[3] ELSE parts[1]
             IN  IF Len(y) = 4 /\ Len(parts[2]) \in 1 .. 2 /\ Len(d) \in 1 .. 2
                 THEN date(int(y), int(parts[2]), int(d))
                 ELSE None

\* parse_date of a text that is one date candidate and nothing else: the
\* regular expressions of lines 357-372 then find what strptime was given
parse_date(text) ==
    LET t == strip(text)
        tries == << strptime(t, ".", FALSE), strptime(t, "-", TRUE),
                    strptime(t, "/", FALSE), strptime(t, "-", FALSE) >>
    IN  IF \E i \in 1 .. 4 : tries[i] # None
        THEN tries[CHOOSE i \in 1 .. 4 : tries[i] # None /\ \A j \in 1 .. i - 1 : tries[j] = None]
        ELSE None

\* texts sent as a date: a date, a day that does not exist, and other text
DateTexts ==
    { << "1", "5", ".", "1", "2", ".", "2", "0", "2", "5", " " >>,
      << "3", "1", ".", "0", "2", ".", "2", "0", "2", "5" >>,
      << "h", "i" >> }

\* a handler awaiting a reply; it holds no key and has not been refused
Awaiting(handler) == [ handler |-> handler, key |-> None, ret |-> TRUE ]

\* check_access has refused the event and awaits its answer
Refused == [ handler |-> "check_access", key |-> None, ret |-> FALSE ]

\* hw_today, hw_tomorrow, hw_week up to their first await: check_access, then
\* `await callback.answer("Загружаю...")`
hw_callback ==
    \E user_id \in UserIds, handler \in HomeworkButtons :
        /\ task[user_id] = NoTask
        /\ task' = [ task EXCEPT ![user_id] =
                       IF is_authorized(user_id) THEN Awaiting(handler) ELSE Refused ]
        /\ UNCHANGED << store, removed, last, fsm, client >>

\* send_homework called by hw_today, hw_tomorrow, hw_week when callback.answer
\* has returned, up to `await client.get` of fetch_homeworks
send_homework ==
    \E user_id \in UserIds :
        /\ task[user_id].handler \in HomeworkButtons
        /\ task' = [ task EXCEPT ![user_id] = Awaiting("fetch_homeworks") ]
        /\ UNCHANGED << store, removed, last, fsm, client >>

\* hw_custom_date up to `await callback.message.edit_text`
hw_custom_date ==
    \E user_id \in UserIds :
        /\ task[user_id] = NoTask
        /\ IF is_authorized(user_id)
           THEN /\ fsm' = [ fsm EXCEPT ![user_id] = "waiting_for_date" ]
                /\ task' = [ task EXCEPT ![user_id] = Awaiting("hw_custom_date") ]
           ELSE /\ fsm' = fsm
                /\ task' = [ task EXCEPT ![user_id] = Refused ]
        /\ UNCHANGED << store, removed, last, client >>

\* process_custom_date up to its first suspending await: a text from a user
\* whose FSM state is waiting_for_date
process_custom_date ==
    \E user_id \in UserIds, text \in DateTexts :
        /\ task[user_id] = NoTask
        /\ fsm[user_id] = "waiting_for_date"
        /\ IF ~is_authorized(user_id)
           THEN /\ fsm' = [ fsm EXCEPT ![user_id] = "waiting_for_key" ]
                /\ task' = [ task EXCEPT ![user_id] = Refused ]
           ELSE IF parse_date(strip(text)) = None
           THEN /\ fsm' = fsm
                /\ task' = [ task EXCEPT ![user_id] = Awaiting("process_custom_date") ]
           ELSE /\ fsm' = [ fsm EXCEPT ![user_id] = "none" ]
                /\ task' = [ task EXCEPT ![user_id] = Awaiting("fetch_homeworks") ]
        /\ UNCHANGED << store, removed, last, client >>

\* handle_any_text up to its first suspending await: a text from a user whose
\* FSM state routes it to no other handler
handle_any_text ==
    \E user_id \in UserIds, text \in DateTexts :
        /\ task[user_id] = NoTask
        /\ fsm[user_id] = "none"
        /\ IF is_authorized(user_id) /\ parse_date(strip(text)) # None
           THEN task' = [ task EXCEPT ![user_id] = Awaiting("fetch_homeworks") ]
           ELSE task' = task
        /\ UNCHANGED << store, removed, last, fsm, client >>

NextAccess ==
    \/ NextBot
    \/ hw_callback
    \/ send_homework
    \/ hw_custom_date
    \/ process_custom_date
    \/ handle_any_text

SpecAccess == Init /\ [][NextAccess]_vars

(***************************************************************************)
(* AutheduClient._parse_homeworks (app/services/authedu_client.py).  The   *)
(* value of response.json() is a JSON value: JNull, JNumber, JString of    *)
(* the characters, JBool, JList of a sequence, JObject of a function from  *)
(* member names.  A call yields [raised, items]: the exception that        *)
(* leaves it (None: it returns) and the list it returns.                   *)
(***************************************************************************)
JBool(b) == << "bool", b >>

JList(seq) == << "list", seq >>

JObject(members) == << "object", members >>

isinstance(j, type) == j[1] = type

\* bool(j): None, 0, False, "", [] and {} are falsy
bool(j) ==
    CASE j[1] = "null" -> FALSE
      [] j[1] = "number" -> j[2] # 0
      [] j[1] = "bool" -> j[2]
      [] j[1] = "string" -> j[2] # << >>
      [] j[1] = "list" -> j[2] # << >>
      [] j[1] = "object" -> DOMAIN j[2] # {}

\* d.get(name, default) of a JSON object
get(d, name, default) == IF name \in DOMAIN d[2] THEN d[2][name] ELSE default

\* a or b
or(a, b) == IF bool(a) THEN a ELSE b

RECURSIVE decimal(_)
\* the digits of n >= 0
decimal(n) ==
    IF n < 10 THEN << digits[n + 1] >>
    ELSE decimal(n \div 10) \o << digits[(n % 10) + 1] >>

\* str(j) of a truthy string, number or True
text_of(j) ==
    CASE j[1] = "string" -> j[2]
      [] j[1] = "number" -> decimal(j[2])
      [] j[1] = "bool" -> << "T", "r", "u", "e" >>

\* date.fromisoformat(j) for the form YYYY-MM-DD: [raises, value]
fromisoformat(j) ==
    IF ~isinstance(j, "string")
    THEN [ raises |-> Some("TypeError"), value |-> None ]
    ELSE LET t == j[2]
             d == IF /\ Len(t) = 10
                     /\ t[5] = "-"
                     /\ t[8] = "-"
                     /\ IsDigits(SubSeq(t, 1, 4))
                     /\ IsDigits(SubSeq(t, 6, 7))
                     /\ IsDigits(SubSeq(t, 9, 10))
                  THEN date(int(SubSeq(t, 1, 4)), int(SubSeq(t, 6, 7)), int(SubSeq(t, 9, 10)))
                  ELSE None
         IN  IF d = None
             THEN [ raises |-> Some("ValueError"), value |-> None ]
             ELSE [ raises |-> None, value |-> d ]

\* the default of hw.get("subject_name", ...): a Cyrillic text, written here
\* with a character that sorts after the letters and digits
NoSubject == JString(<< "~", "s" >>)

\* the default of mat.get("title", ...)
NoTitle == JString(<< "~", "t" >>)

\* what `for x in j` iterates over, as far as dicts are concerned: the
\* elements of a list; a str and a dict yield str only; None where j is not
\* iterable
iter(j) ==
    CASE j[1] = "list" -> Some(j[2])
      [] j[1] \in { "string", "object" } -> Some(<< >>)
      [] OTHER -> None

RECURSIVE first_url_All(_, _)
\* mutant: an inner loop without its break
first_url_All(title, urls) ==
    IF urls = << >> THEN << >>
    ELSE LET url_obj == Head(urls)
         IN  IF isinstance(url_obj, "object") /\ bool(get(url_obj, "url", JNull))
             THEN << [ title |-> title, url |-> url_obj[2]["url"] ] >>
                      \o first_url_All(title, Tail(urls))
             ELSE first_url_All(title, Tail(urls))

RECURSIVE first_url(_, _)
\* the inner loop over urls: the MaterialItem of the first entry with a url
first_url(title, urls) ==
    IF urls = << >> THEN << >>
    ELSE LET url_obj == Head(urls)
         IN  IF isinstance(url_obj, "object") /\ bool(get(url_obj, "url", JNull))
             THEN << [ title |-> title, url |-> url_obj[2]["url"] ] >>
             ELSE first_url(title, Tail(urls))

RECURSIVE parse_materials(_)
\* the loop over materials_raw: [raised, items]
parse_materials(materials_raw) ==
    IF materials_raw = << >> THEN [ raised |-> None, items |-> << >> ]
    ELSE LET mat == Head(materials_raw)
             rest == parse_materials(Tail(materials_raw))
         IN  IF ~isinstance(mat, "object") THEN rest
             ELSE LET title == get(mat, "title", NoTitle)
                      urls == iter(or(get(mat, "urls", JNull), JList(<< >>)))
                  IN  IF urls = None
                      THEN [ raised |-> Some("TypeError"), items |-> << >> ]
                      ELSE IF rest.raised # None THEN rest
                      ELSE [ raised |-> None,
                             items |-> first_url(title, urls[1]) \o rest.items ]

\* lines 171-172: the text of either field, as a str, trimmed
homework_text_of(hw) ==
    strip(text_of(or(or(get(hw, "homework", JNull), get(hw, "description", JNull)),
                     JString(<< >>))))

\* mutant: a loop that keeps the elements without text
no_text_Never(homework_text) == FALSE

\* `not homework_text`
no_text(homework_text) == homework_text = << >>

\* one pass of the loop over data: [raised, items] with the HomeworkItem
\* appended, or nothing appended where the pass ends in `continue`
parse_element(hw) ==
    LET skip == [ raised |-> None, items |-> << >> ]
    IN  IF ~isinstance(hw, "object") THEN skip
        ELSE LET homework_text == homework_text_of(hw)
                 homework_date == fromisoformat(get(hw, "date", JString(<< >>)))
                 materials_raw == iter(or(get(hw, "materials", JNull), JList(<< >>)))
             IN  IF no_text(homework_text) THEN skip
                 ELSE IF homework_date.raises = Some("ValueError") THEN skip
                 ELSE IF homework_date.raises # None
                 THEN [ raised |-> homework_date.raises, items |-> << >> ]
                 ELSE IF materials_raw = None
                 THEN [ raised |-> Some("TypeError"), items |-> << >> ]
                 ELSE LET materials == parse_materials(materials_raw[1])
                      IN  IF materials.raised # None
                          THEN [ raised |-> materials.raised, items |-> << >> ]
                          ELSE [ raised |-> None,
                                 items |-> << [ subject |-> get(hw, "subject_name", NoSubject),
                                                homework_date |-> homework_date.value[1],
                                                homework_text |-> homework_text,
                                                is_done |-> get(hw, "is_done", JBool(FALSE)),
                                                materials |-> materials.items ] >> ]

RECURSIVE parse_elements(_)
\* the loop over data, from its first element on: an exception ends it
parse_elements(data) ==
    IF data = << >> THEN [ raised |-> None, items |-> << >> ]
    ELSE LET one == parse_element(Head(data))
         IN  IF one.raised # None THEN one
             ELSE LET rest == parse_elements(Tail(data))
                  IN  IF rest.raised # None THEN rest
                      ELSE [ raised |-> None, items |-> one.items \o rest.items ]

\* the rank of a character among the code points
ord(c) ==
    LET alphabet == digits \o ascii_uppercase \o ascii_lowercase
    IN  IF \E i \in DOMAIN alphabet : alphabet[i] = c
        THEN CHOOSE i \in DOMAIN alphabet : alphabet[i] = c
        ELSE 1000

RECURSIVE less(_, _)
\* a < b for two sequences of numbers, as Python compares tuples
less(a, b) ==
    IF a = << >> THEN b # << >>
    ELSE IF b = << >> THEN FALSE
    ELSE IF Head(a) # Head(b) THEN Head(a) < Head(b)
    ELSE less(Tail(a), Tail(b))

\* a < b is defined for two subjects: two str, or two of int and bool; the
\* subjects of the payloads here are str or None
orderable(a, b) ==
    \/ a[1] = "string" /\ b[1] = "string"
    \/ a[1] \in { "number", "bool" } /\ b[1] \in { "number", "bool" }

\* the keys of two of the items are tuples that < cannot compare: the dates
\* are equal, the subjects are not, and < is not defined for them.  Equal
\* dates leave no key of another item between the two, so every comparison
\* sort compares the two keys, or two keys like them, whatever its order of
\* comparisons
sort_raises(items) ==
    \E i, j \in DOMAIN items :
        /\ items[i].homework_date = items[j].homework_date
        /\ items[i].subject # items[j].subject
        /\ ~orderable(items[i].subject, items[j].subject)

\* the sort key (x.homework_date, x.subject) as a sequence of numbers; a
\* subject that is not a str is only compared with an equal one or after a
\* different date where the sort does not raise, so it adds nothing
sort_key(x) ==
    x.homework_date \o << 0 >> \o
        (IF x.subject[1] = "string"
         THEN [ i \in DOMAIN x.subject[2] |-> ord(x.subject[2][i]) ]
         ELSE << >>)

RECURSIVE insert(_, _)
\* x put into the sorted list after the items that are not greater
insert(sorted, x) ==
    IF sorted = << >> THEN << x >>
    ELSE IF less(sort_key(x), sort_key(Head(sorted)))
         THEN << x >> \o sorted
         ELSE << Head(sorted) >> \o insert(Tail(sorted), x)

RECURSIVE sort(_)
\* items.sort(key=...): stable
sort(items) ==
    IF items = << >> THEN << >>
    ELSE insert(sort(SubSeq(items, 1, Len(items) - 1)), items[Len(items)])

\* AutheduClient._parse_homeworks(data)
parse_homeworks(data) ==
    LET unwrapped ==
            IF isinstance(data, "object")
            THEN or(or(or(get(data, "payload", JNull), get(data, "response", JNull)),
                       get(data, "data", JNull)), JList(<< >>))
            ELSE data
    IN  IF ~isinstance(unwrapped, "list")
        THEN [ raised |-> None, items |-> << >> ]
        ELSE LET parsed == parse_elements(unwrapped[2])
             IN  IF parsed.raised # None THEN parsed
                 ELSE IF sort_raises(parsed.items)
                 THEN [ raised |-> Some("TypeError"), items |-> << >> ]
                 ELSE [ raised |-> None, items |-> sort(parsed.items) ]

(***************************************************************************)
(* _parse_homeworks applied to the payloads of a bounded set.              *)
(***************************************************************************)
Jan15 == JString(<< "2", "0", "2", "5", "-", "0", "1", "-", "1", "5" >>)

Jan14 == JString(<< "2", "0", "2", "5", "-", "0", "1", "-", "1", "4" >>)

HW == JString(<< " ", "h", "w", "\n" >>)

\* the elements a payload list is made of
Elements ==
    { \* a record with all it needs, and one with its text under description
      JObject([ homework |-> HW, date |-> Jan15, subject_name |-> JString(<< "B" >>) ]),
      JObject([ description |-> JString(<< "d" >>), date |-> Jan14,
                subject_name |-> JString(<< "A" >>), is_done |-> JBool(TRUE) ]),
      \* an empty homework with a description, and attachments
      JObject([ homework |-> JString(<< >>), description |-> JString(<< "d", "2" >>),
                date |-> Jan15,
                materials |-> JList(<< JObject([ title |-> JString(<< "t" >>),
                    urls |-> JList(<< JObject([ url |-> JString(<< "u" >>) ]) >>) ]) >>) ]),
      \* attachment groups: with entries without a url before and entries
      \* with a url after the first url, with no entry, without a title, one
      \* that is no record, one whose first entries have an empty url or are
      \* no records
      JObject([ homework |-> JString(<< "m", "1" >>), date |-> Jan14,
                subject_name |-> JString(<< "A" >>),
                materials |-> JList(<<
                    JObject([ title |-> JString(<< "t", "1" >>),
                              urls |-> JList(<< JObject([ name |-> JString(<< "x" >>) ]),
                                                JObject([ url |-> JString(<< "u", "1" >>) ]),
                                                JObject([ url |-> JString(<< "u", "2" >>) ]) >>) ]),
                    JObject([ title |-> JString(<< "t", "2" >>), urls |-> JList(<< >>) ]),
                    JObject([ urls |-> JList(<< JObject([ url |-> JString(<< "u", "3" >>) ]) >>) ]),
                    JString(<< "g" >>),
                    JObject([ title |-> JString(<< "t", "4" >>),
                              urls |-> JList(<< JObject([ url |-> JString(<< >>) ]),
                                                JString(<< "s" >>),
                                                JObject([ url |-> JString(<< "u", "4" >>) ]) >>) ])
                >>) ]),
      \* groups without any url, and no list of groups
      JObject([ homework |-> JString(<< "m", "2" >>), date |-> Jan15,
                subject_name |-> JString(<< "A" >>),
                materials |-> JList(<< JObject([ title |-> JString(<< "t" >>) ]),
                                       JObject([ title |-> JString(<< "t" >>),
                                                 urls |-> JNull ]) >>) ]),
      JObject([ homework |-> JString(<< "m", "3" >>), date |-> Jan15,
                subject_name |-> JString(<< "A" >>), materials |-> JNull ]),
      \* a subject that is null
      JObject([ homework |-> HW, date |-> Jan15, subject_name |-> JNull ]),
      \* a number as the text
      JObject([ homework |-> JNumber(7), date |-> Jan14 ]),
      \* no text: empty, blank (the description is then not read), null
      JObject([ homework |-> JString(<< >>), date |-> Jan15 ]),
      JObject([ homework |-> JString(<< " ", " " >>), description |-> JString(<< "d" >>),
                date |-> Jan15 ]),
      JObject([ homework |-> JNull, date |-> JNull ]),
      \* a date that is no calendar date: another format, a day that does not
      \* exist, missing, null, a number
      JObject([ homework |-> HW,
                date |-> JString(<< "1", "5", ".", "0", "1", ".", "2", "0", "2", "5" >>) ]),
      JObject([ homework |-> HW,
                date |-> JString(<< "2", "0", "2", "5", "-", "0", "2", "-", "3", "0" >>) ]),
      JObject([ homework |-> HW ]),
      JObject([ homework |-> HW, date |-> JNull ]),
      JObject([ homework |-> HW, date |-> JNumber(20250115) ]),
      \* not a record
      JString(<< "x" >>) }

\* the lists of at most n elements
RECURSIVE Lists(_)
Lists(n) ==
    IF n = 0 THEN { << >> }
    ELSE LET shorter == Lists(n - 1)
         IN  shorter \cup { << e >> \o l : e \in Elements, l \in { x \in shorter : Len(x) = n - 1 } }

\* what response.json() can be: a list, a list under one of the known names,
\* under another name, behind an empty payload, and values that hold no list
Payloads ==
    LET lists == { JList(l) : l \in Lists(MaxElements) }
    IN  lists
        \cup { JObject([ payload |-> l ]) : l \in lists }
        \cup { JObject([ response |-> l ]) : l \in lists }
        \cup { JObject([ payload |-> JList(<< >>), data |-> l ]) : l \in lists }
        \cup { JObject([ items |-> l ]) : l \in lists }
        \cup { JNull, JNumber(5), JString(<< "o", "k" >>), JObject([ x \in {} |-> JNull ]),
               JObject([ payload |-> JObject([ a |-> JNumber(1) ]) ]),
               JObject([ payload |-> JString(<< "n", "o" >>) ]) }

\* _parse_homeworks is called with data
ParseHomeworks ==
    /\ parse = NoParse
    /\ \E data \in Payloads :
          LET out == parse_homeworks(data)
          IN  parse' = [ pc |-> IF out.raised = None THEN "returned" ELSE "raised",
                         data |-> data, raised |-> out.raised, items |-> out.items ]
    /\ UNCHANGED << store, removed, last, bot, fetch >>

NextParse == ParseHomeworks

SpecParse == Init /\ [][NextParse]_vars

(***************************************************************************)
(* AutheduClient.fetch_homeworks (app/services/authedu_client.py).  fetch  *)
(* is the frame of one call: pc is the await it stands at ("get",          *)
(* "sleep") or how it ended ("returned", "raised"); responses is what      *)
(* client.get has produced so far, one entry per attempt; slept is the     *)
(* waits asyncio.sleep was called with.  An exception object is            *)
(* [type, raised_in]; the message of an AutheduAPIError is the tuple of    *)
(* its template and the values formatted into it.                          *)
(***************************************************************************)
\* subclasses of httpx.TimeoutException and of httpx.RequestError
NetworkErrors == { "ReadTimeout", "ConnectError" }

StatusCodes == { 200, 204, 302, 400, 401, 403, 404, 500 }

\* a body that response.json() cannot decode: an HTML page, an empty body
NotJson == << "not json" >>

\* what the body of a response decodes to
Bodies ==
    LET valid == JObject([ homework |-> HW, date |-> Jan15,
                           subject_name |-> JString(<< "B" >>) ])
        other == JObject([ description |-> JString(<< "d" >>), date |-> Jan14,
                           subject_name |-> JString(<< "A" >>) ])
    IN  { NotJson,
          JList(<< valid >>),
          JObject([ payload |-> JList(<< valid, other >>) ]),
          JList(<< JString(<< "x" >>), valid >>),
          JList(<< JObject([ homework |-> HW, date |-> JNull ]), valid >>),
          JNull }

\* what `await client.get` ends in: an exception of httpx, or a response; the
\* body of an error response is not read
Outcomes ==
    { [ raises |-> Some(e) ] : e \in NetworkErrors }
    \cup { [ raises |-> None, status_code |-> c, body |-> b ] :
             c \in { x \in StatusCodes : x < 400 }, b \in Bodies }
    \cup { [ raises |-> None, status_code |-> c, body |-> NotJson ] :
             c \in { x \in StatusCodes : x >= 400 } }

AutheduAPIError(message, status_code) ==
    [ type |-> "AutheduAPIError", message |-> message, status_code |-> status_code ]

\* mutant: a client that takes a redirect for an error
status_error_From300(status_code) ==
    IF status_code = 401
    THEN Some(AutheduAPIError(<< "token expired or invalid (401)" >>, Some(401)))
    ELSE IF status_code = 403
    THEN Some(AutheduAPIError(<< "access forbidden (403)" >>, Some(403)))
    ELSE IF status_code >= 300
    THEN Some(AutheduAPIError(<< "API error: HTTP", status_code >>, Some(status_code)))
    ELSE None

\* mutant: a client without the branch for 403
status_error_No403(status_code) ==
    IF status_code = 401
    THEN Some(AutheduAPIError(<< "token expired or invalid (401)" >>, Some(401)))
    ELSE IF status_code >= 400
    THEN Some(AutheduAPIError(<< "API error: HTTP", status_code >>, Some(status_code)))
    ELSE None

\* lines 111-128: the error raised for a status code, None where there is none
status_error(status_code) ==
    IF status_code = 401
    THEN Some(AutheduAPIError(<< "token expired or invalid (401)" >>, Some(401)))
    ELSE IF status_code = 403
    THEN Some(AutheduAPIError(<< "access forbidden (403)" >>, Some(403)))
    ELSE IF status_code >= 400
    THEN Some(AutheduAPIError(<< "API error: HTTP", status_code >>, Some(status_code)))
    ELSE None

\* mutant: a loop that runs once more
in_range_OneMore(attempt, max_retries) == attempt <= max_retries

\* `for attempt in range(max_retries)`: attempt is a value of the loop
in_range(attempt, max_retries) == attempt < max_retries

\* mutant: a loop that sleeps after every failed attempt
backs_off_Always(attempt, max_retries) == TRUE

\* `if attempt < max_retries - 1`
backs_off(attempt, max_retries) == attempt < max_retries - 1

\* the loop goes on to attempt: the next pass, or the raise after the loop
next_pass(f, attempt) ==
    IF in_range(attempt, f.max_retries)
    THEN [ f EXCEPT !.pc = "get", !.attempt = attempt ]
    ELSE [ f EXCEPT !.pc = "raised", !.attempt = attempt,
                    !.error = Some(AutheduAPIError(
                        << "could not connect after", f.max_retries,
                           "attempts, last error:", f.last_error >>, None)) ]

\* the frame of a call that has not reached its loop
Called(max_retries) ==
    [ pc |-> "called", max_retries |-> max_retries, attempt |-> 0,
      responses |-> << >>, last_error |-> None, slept |-> << >>,
      result |-> None, error |-> None ]

\* fetch_homeworks(from_date, to_date) or (from_date, to_date, max_retries) up
\* to the first await of client.get
fetch_homeworks ==
    /\ fetch = NoFetch
    /\ \E max_retries \in (1 .. MaxRetries) \cup { DefaultMaxRetries } :
          fetch' = next_pass(Called(max_retries), 0)
    /\ UNCHANGED << store, removed, last, bot, parse >>

\* the frame f after client.get has ended in response: the rest of the pass,
\* up to the next await or the end of the call
after_get(f, response) ==
    LET h == [ f EXCEPT !.responses = Append(@, response) ]
    IN  IF response.raises # None
        THEN LET e == [ type |-> response.raises[1], raised_in |-> f.attempt ]
                 g == [ h EXCEPT !.last_error = Some(e) ]
             IN  IF backs_off(f.attempt, f.max_retries)
                 THEN [ g EXCEPT !.pc = "sleep", !.slept = Append(@, 2 ^ f.attempt) ]
                 ELSE next_pass(g, f.attempt + 1)
        ELSE IF status_error(response.status_code) # None
        THEN [ h EXCEPT !.pc = "raised", !.error = status_error(response.status_code) ]
        ELSE IF response.body = NotJson
        THEN [ h EXCEPT !.pc = "raised", !.error = Some([ type |-> "JSONDecodeError" ]) ]
        ELSE LET parsed == parse_homeworks(response.body)
             IN  IF parsed.raised # None
                 THEN [ h EXCEPT !.pc = "raised",
                                 !.error = Some([ type |-> parsed.raised[1] ]) ]
                 ELSE [ h EXCEPT !.pc = "returned", !.result = Some(parsed.items) ]

\* client.get ends
get_done ==
    /\ fetch.pc = "get"
    /\ \E response \in Outcomes : fetch' = after_get(fetch, response)
    /\ UNCHANGED << store, removed, last, bot, parse >>

\* asyncio.sleep ends
sleep_done ==
    /\ fetch.pc = "sleep"
    /\ fetch' = next_pass(fetch, fetch.attempt + 1)
    /\ UNCHANGED << store, removed, last, bot, parse >>

NextFetch ==
    \/ fetch_homeworks
    \/ get_done
    \/ sleep_done

\* client.get ends within the timeout of the client and asyncio.sleep after
\* its delay
SpecFetch == Init /\ [][NextFetch]_vars /\ WF_vars(get_done) /\ WF_vars(sleep_done)

(***************************************************************************)
(* send_homework after fetch_homeworks has returned, and                   *)
(* format_homework_list (app/utils/formatting.py).  The text of a reply is *)
(* the sequence of its blocks: a heading, the heading of a date, an item,  *)
(* an empty line.  Here fetch is the frame of send_homework.               *)
(***************************************************************************)
\* mutant: a reply that keeps the items of every date
on_date_Any(item, from_date) == TRUE

\* item.homework_date == from_date
on_date(item, from_date) == item.homework_date = from_date

RECURSIVE filter(_, _)
\* [item for item in items if item.homework_date == from_date]
filter(items, from_date) ==
    IF items = << >> THEN << >>
    ELSE (IF on_date(Head(items), from_date) THEN << Head(items) >> ELSE << >>)
             \o filter(Tail(items), from_date)

\* s[:n]
prefix(seq, n) == SubSeq(seq, 1, IF Len(seq) < n THEN Len(seq) ELSE n)

\* format_single_homework(item): the mark, the subject, the text cut to 800
\* characters and the links of the first five attachments
format_single_homework(item) ==
    [ kind |-> "item",
      done_icon |-> IF bool(item.is_done) THEN "done" ELSE "open",
      subject |-> item.subject,
      hw_text |-> IF Len(item.homework_text) > 800
                  THEN prefix(item.homework_text, 800) \o << ".", ".", "." >>
                  ELSE item.homework_text,
      files |-> [ n \in DOMAIN prefix(item.materials, 5) |-> item.materials[n].url ] ]

RECURSIVE sorted(_)
\* sorted(by_date.keys())
sorted(dates) ==
    IF dates = {} THEN << >>
    ELSE LET first == CHOOSE d \in dates : \A e \in dates : ~less(e, d)
         IN  << first >> \o sorted(dates \ { first })

\* by_date[hw_date]: the items of the date, in the order of the list
by_date(items, hw_date) == SelectSeq(items, LAMBDA item : item.homework_date = hw_date)

RECURSIVE format_items(_)
\* the lines of the items, in the order of the list
format_items(items) ==
    IF items = << >> THEN << >>
    ELSE << format_single_homework(Head(items)) >> \o format_items(Tail(items))

RECURSIVE format_dates(_, _)
\* the loop over the sorted dates: the heading of the date, the items of
\* by_date[hw_date], an empty line
format_dates(dates, items) ==
    IF dates = << >> THEN << >>
    ELSE << [ kind |-> "date", date |-> Head(dates) ] >>
             \o format_items(by_date(items, Head(dates)))
             \o << [ kind |-> "blank" ] >>
             \o format_dates(Tail(dates), items)

format_homework_list(items, target_date, is_range) ==
    IF items = << >>
    THEN IF is_range THEN << [ kind |-> "nothing in the period" ] >>
         ELSE << [ kind |-> "nothing on", date |-> target_date ] >>
    ELSE IF is_range
    THEN << [ kind |-> "heading" ] >>
             \o format_dates(sorted({ items[n].homework_date : n \in DOMAIN items }), items)
    ELSE << [ kind |-> "heading", date |-> target_date ] >> \o format_items(items)

\* the elements the upstream answers a request with
SendElements ==
    { JObject([ homework |-> HW, date |-> Jan15, subject_name |-> JString(<< "B" >>) ]),
      JObject([ homework |-> JString(<< "a" >>), date |-> Jan15,
                subject_name |-> JString(<< "A" >>), is_done |-> JBool(TRUE) ]),
      JObject([ description |-> JString(<< "d" >>), date |-> Jan14,
                subject_name |-> JString(<< "C" >>) ]),
      JObject([ homework |-> JNumber(7), date |-> Jan14 ]),
      JObject([ homework |-> JString(<< "l" >>),
                date |-> JString(<< "2", "0", "2", "4", "-", "1", "2", "-", "3", "1" >>),
                materials |-> JList(<< JObject([ urls |-> JList(<<
                                  JObject([ url |-> JString(<< "u" >>) ]) >>) ]) >>) ]),
      JObject([ homework |-> JString(<< >>), date |-> Jan15 ]) }

RECURSIVE SendLists(_)
\* the lists of at most n of these elements
SendLists(n) ==
    IF n = 0 THEN { << >> }
    ELSE LET shorter == SendLists(n - 1)
         IN  shorter \cup { << e >> \o l : e \in SendElements,
                                          l \in { x \in shorter : Len(x) = n - 1 } }

\* the dates asked for
SendDates == { << 2025, 1, 14 >>, << 2025, 1, 15 >>, << 2025, 1, 16 >> }

\* send_homework(message, from_date, to_date, is_range) from the return of
\* fetch_homeworks to the reply; data is what the upstream answered with
send_homework_reply ==
    /\ fetch = NoFetch
    /\ \E l \in SendLists(MaxElements), from_date \in SendDates, is_range \in BOOLEAN :
          LET fetched == parse_homeworks(JList(l))
              items == IF is_range THEN fetched.items ELSE filter(fetched.items, from_date)
          IN  fetch' = [ pc |-> "answered", data |-> l, from_date |-> from_date,
                         is_range |-> is_range, fetched |-> fetched.items, items |-> items,
                         text |-> format_homework_list(items, from_date, is_range) ]
    /\ UNCHANGED << store, removed, last, bot, parse >>

NextSend == send_homework_reply

SpecSend == Init /\ [][NextSend]_vars

(***************************************************************************)
(* The handlers that reach the store, each taken whole for the update of   *)
(* one sender, at the time the clock shows; last is the update handled     *)
(* last: its handler and its sender, and for a text sent as a key the text *)
(* and what activate_key returned.                                         *)
(***************************************************************************)
Update(handler, user_id) == [ op |-> handler, user_id |-> Some(user_id) ]

\* /start from user_id
on_cmd_start(user_id) ==
    /\ fsm' = [ fsm EXCEPT ![user_id] =
                  IF is_authorized(user_id) THEN "none" ELSE "waiting_for_key" ]
    /\ last' = Update("cmd_start", user_id)
    /\ UNCHANGED << store, removed, task, client >>

\* a text from user_id in the state waiting_for_key
on_process_key_input(user_id) ==
    /\ fsm[user_id] = "waiting_for_key"
    /\ \E text \in Texts \cup { Mixed(k) : k \in KeySpace }, ret \in BOOLEAN :
          /\ activate_key(key_of_text(text), user_id, DisplayName(from_user(user_id)),
                          clock, "ok", ret)
          /\ fsm' = IF ret THEN [ fsm EXCEPT ![user_id] = "none" ] ELSE fsm
          /\ last' = [ op |-> "process_key_input", user_id |-> Some(user_id),
                       text |-> text, ret |-> ret ]
    /\ UNCHANGED << removed, task, client >>

\* the button admin_create_key pressed by user_id
on_admin_create_key(user_id) ==
    /\ IF ~is_admin(user_id)
       THEN UNCHANGED store
       ELSE \E parts \in Draws, ret \in KeySpace : generate_key(parts, clock, "ok", ret)
    /\ last' = Update("admin_create_key", user_id)
    /\ UNCHANGED << removed, bot, client >>

\* a button delete_key:<key> pressed by user_id
on_admin_delete_key(user_id) ==
    /\ \E shown \in KeySpace :
          IF ~is_admin(user_id)
          THEN UNCHANGED store
          ELSE \E ret \in BOOLEAN : delete_key(button_key[shown], "ok", ret)
    /\ last' = Update("admin_delete_key", user_id)
    /\ UNCHANGED << removed, bot, client >>

\* a homework button pressed, or a date sent, by user_id: the store is read
\* by check_access only
on_homework(user_id) ==
    /\ last' = Update(IF is_authorized(user_id) THEN "send_homework" ELSE "check_access",
                      user_id)
    /\ UNCHANGED << store, removed, bot, client >>

NextUpdates ==
    \E user_id \in UserIds :
        \/ on_cmd_start(user_id)
        \/ on_process_key_input(user_id)
        \/ on_admin_create_key(user_id)
        \/ on_admin_delete_key(user_id)
        \/ on_homework(user_id)

SpecUpdates == Init /\ [][NextUpdates]_vars

(***************************************************************************)
(* The `while True` loop of Storage.generate_key, one draw at a time.      *)
(* last is the frame of the call while it loops: op "while True" and the   *)
(* parts drawn last.  The loop has no await, so nothing else runs while it *)
(* does.  data.json never holds all the 36^12 keys there are: a call       *)
(* starts with a key still free.                                           *)
(***************************************************************************)
\* mutant: a retry that tests the key it has drawn before again
redraw_Same(parts) == { parts }

\* the next pass of the loop draws again, with secrets.choice
redraw(parts) == Draws

\* generate_key is called and draws for the first time
generate_key_called ==
    /\ last.op = "none"
    /\ DOMAIN keys # KeySpace
    /\ \E parts \in Draws : last' = [ op |-> "while True", parts |-> parts ]
    /\ UNCHANGED << store, removed, bot, client >>

\* `if key not in self._data["keys"]: break` for the key drawn, then the rest
\* of generate_key, or the next draw
generate_key_tested ==
    /\ last.op = "while True"
    /\ IF join(<<"-">>, last.parts) \in DOMAIN keys
       THEN /\ \E parts \in redraw(last.parts) : last' = [ last EXCEPT !.parts = parts ]
            /\ UNCHANGED store
       ELSE \E now \in Now, ret \in KeySpace :
               /\ generate_key(last.parts, now, "ok", ret)
               /\ last' = Call("generate_key", ret, None, TRUE)
    /\ UNCHANGED << removed, bot, client >>

\* a pass of the loop that draws a key that is not stored
draws_free ==
    /\ generate_key_tested
    /\ last'.op = "while True"
    /\ join(<<"-">>, last'.parts) \notin DOMAIN keys

NextGenerate ==
    \/ generate_key_called
    \/ generate_key_tested
    \/ ActivateKey(Written)
    \/ DeleteKey(Written)
    \/ last.op # "while True" /\ Return

\* the loop runs on, and secrets.choice does not avoid the free keys for ever
SpecGenerate ==
    Init /\ [][NextGenerate]_vars /\ WF_vars(generate_key_tested) /\ WF_vars(draws_free)

(***************************************************************************)
(* The event loop.  asyncio runs the handlers of all updates on one        *)
(* thread (Dispatcher.start_polling handles every update in a task of its  *)
(* own): a handler runs from one await to the next, and while it waits in  *)
(* an await the loop runs the others; a wait that is not awaited keeps the *)
(* thread.  Here fetch is a function: the frame of fetch_homeworks of each *)
(* user that has one.  The store is driven without the record of calls,    *)
(* at the time the clock shows.                                            *)
(***************************************************************************)
\* the users that ask for homework
Fetchers == { AdminId, 1 }

\* the waits of fetch_homeworks: client.get and the sleep before a retry
Waits == { "get", "sleep" }

\* mutant: a backoff with time.sleep
Awaited_NoSleep == { "get" }

\* the waits made with await: `await client.get` of httpx.AsyncClient and
\* `await asyncio.sleep`
Awaited == { "get", "sleep" }

\* the thread is kept by a call other than that of user_id; with 0, which is
\* no user, by any call
held(user_id) ==
    \E u \in Fetchers \ { user_id } : fetch[u].pc \in Waits \ Awaited

\* what client.get ends in here: a timeout, or a response with one item
LoopOutcomes ==
    { [ raises |-> Some("ReadTimeout") ],
      [ raises |-> None, status_code |-> 200,
        body |-> JList(<< JObject([ homework |-> HW, date |-> Jan15 ]) >>) ] }

InitLoop ==
    /\ keys = EmptyDict
    /\ users = EmptyDict
    /\ disk = NoFile
    /\ clock = 0
    /\ removed = {}
    /\ last = NoCall
    /\ fsm = [ u \in UserIds |-> "none" ]
    /\ task = [ u \in UserIds |-> NoTask ]
    /\ fetch = [ u \in Fetchers |-> NoFetch ]
    /\ parse = NoParse

\* a handler calls generate_key
loop_generate_key ==
    /\ ~held(0)
    /\ \E parts \in Draws, ret \in KeySpace : generate_key(parts, clock, "ok", ret)
    /\ UNCHANGED << removed, last, bot, client >>

\* a handler of user_id calls activate_key
loop_activate_key(user_id) ==
    /\ ~held(0)
    /\ \E key \in KeySpace, ret \in BOOLEAN :
          activate_key(key, user_id, DisplayName(from_user(user_id)), clock, "ok", ret)
    /\ UNCHANGED << removed, last, bot, client >>

\* a handler calls delete_key
loop_delete_key ==
    /\ ~held(0)
    /\ \E key \in KeySpace, ret \in BOOLEAN : delete_key(key, "ok", ret)
    /\ UNCHANGED << removed, last, bot, client >>

\* a homework handler of user_id: check_access, then send_homework up to the
\* first `await client.get` of fetch_homeworks
loop_fetch(user_id) ==
    /\ ~held(0)
    /\ fetch[user_id] = NoFetch
    /\ IF is_authorized(user_id)
       THEN fetch' = [ fetch EXCEPT ![user_id] = next_pass(Called(DefaultMaxRetries), 0) ]
       ELSE fetch' = fetch
    /\ UNCHANGED << store, removed, last, bot, parse >>

\* client.get of the call of user_id ends
loop_get_done(user_id) ==
    /\ ~held(user_id)
    /\ fetch[user_id].pc = "get"
    /\ \E response \in LoopOutcomes :
          fetch' = [ fetch EXCEPT ![user_id] = after_get(@, response) ]
    /\ UNCHANGED << store, removed, last, bot, parse >>

\* the sleep of the call of user_id ends
loop_sleep_done(user_id) ==
    /\ ~held(user_id)
    /\ fetch[user_id].pc = "sleep"
    /\ fetch' = [ fetch EXCEPT ![user_id] = next_pass(@, @.attempt + 1) ]
    /\ UNCHANGED << store, removed, last, bot, parse >>

\* send_homework has sent the list, or the text of the error, and returns
loop_answer(user_id) ==
    /\ ~held(0)
    /\ fetch[user_id].pc \in { "returned", "raised" }
    /\ fetch' = [ fetch EXCEPT ![user_id] = NoFetch ]
    /\ UNCHANGED << store, removed, last, bot, parse >>

NextLoop ==
    \/ loop_generate_key
    \/ \E user_id \in Fetchers : loop_activate_key(user_id)
    \/ loop_delete_key
    \/ \E user_id \in Fetchers : loop_fetch(user_id)
    \/ \E user_id \in Fetchers : loop_get_done(user_id)
    \/ \E user_id \in Fetchers : loop_sleep_done(user_id)
    \/ \E user_id \in Fetchers : loop_answer(user_id)

SpecLoop == InitLoop /\ [][NextLoop]_vars

(***************************************************************************)
(* The listings of keys: Storage.get_all_keys, get_unused_keys,            *)
(* get_used_keys.  The dict keeps its keys in the order they were put in,  *)
(* which the function keys does not record: a listing is computed from an  *)
(* order of the stored keys, and the call draws it.                        *)
(***************************************************************************)
\* the orders self._data["keys"].items() can be iterated in
Orders ==
    { order \in [ 1 .. Cardinality(DOMAIN keys) -> DOMAIN keys ] :
        \A i, j \in DOMAIN order : order[i] = order[j] => i = j }

\* AccessKey(key=key, created_at=..., activated_by=..., ...)
AccessKey(key) ==
    [ key |-> key,
      created_at |-> keys[key].created_at,
      activated_by |-> keys[key].activated_by,
      activated_by_username |-> keys[key].activated_by_username,
      activated_at |-> keys[key].activated_at ]

\* lambda x: (x.is_used, x.created_at), False as 0 and True as 1
listing_key(x) == << IF is_used(x) THEN 1 ELSE 0, x.created_at >>

RECURSIVE insert_reverse(_, _)
\* x put into the list sorted in descending order, after the items that are
\* not smaller
insert_reverse(listing, x) ==
    IF listing = << >> THEN << x >>
    ELSE IF less(listing_key(Head(listing)), listing_key(x))
         THEN << x >> \o listing
         ELSE << Head(listing) >> \o insert_reverse(Tail(listing), x)

RECURSIVE sort_reverse(_)
\* items.sort(key=..., reverse=True): descending, equal items in their order
sort_reverse(items) ==
    IF items = << >> THEN << >>
    ELSE insert_reverse(sort_reverse(SubSeq(items, 1, Len(items) - 1)), items[Len(items)])

get_all_keys(order) == sort_reverse([ i \in DOMAIN order |-> AccessKey(order[i]) ])

NotUsed(k) == ~is_used(k)

get_unused_keys(order) == SelectSeq(get_all_keys(order), NotUsed)

get_used_keys(order) == SelectSeq(get_all_keys(order), is_used)

\* a call of one of the three listings returns
GetAllKeys ==
    /\ last.op = "none"
    /\ \E order \in Orders : last' = Call("get_all_keys", None, None, get_all_keys(order))
    /\ UNCHANGED << store, removed, bot, client >>

GetUnusedKeys ==
    /\ last.op = "none"
    /\ \E order \in Orders : last' = Call("get_unused_keys", None, None, get_unused_keys(order))
    /\ UNCHANGED << store, removed, bot, client >>

GetUsedKeys ==
    /\ last.op = "none"
    /\ \E order \in Orders : last' = Call("get_used_keys", None, None, get_used_keys(order))
    /\ UNCHANGED << store, removed, bot, client >>

NextQuery ==
    \/ Next
    \/ GetAllKeys
    \/ GetUnusedKeys
    \/ GetUsedKeys

SpecQuery == Init /\ [][NextQuery]_vars

(***************************************************************************)
(* Properties.  While a call is returning, last holds its arguments, its   *)
(* result and the store before it, and keys, users, disk are the store     *)
(* after it.                                                               *)
(***************************************************************************)
\* the entries of a users dict that are records of user_id
RecordsOf(us, user_id) == { s \in DOMAIN us : us[s].user_id = user_id }

\* the entries of a users dict whose record refers to key
RecordsUsing(us, key) == { s \in DOMAIN us : us[s].key_used = key }

TypeOK ==
    /\ DOMAIN keys \subseteq KeySpace
    /\ \A k \in DOMAIN keys :
          /\ keys[k].created_at \in 0 .. MaxClock
          /\ keys[k].activated_by \in {None} \cup { Some(u) : u \in UserIds }
    /\ DOMAIN users \subseteq { str(u) : u \in UserIds }
    /\ clock \in 0 .. MaxClock
    /\ removed \subseteq KeySpace
    /\ fsm \in [ UserIds -> { "none", "waiting_for_key", "waiting_for_date" } ]

\* C1: activate_key(token, user_id, name) returns true exactly when the token
\* is stored, the key is unused and user_id has no user record; when it returns
\* true the key is recorded as activated by user_id and a user record of
\* user_id referring to the key exists.
C1_ActivateContract ==
    last.op = "activate_key" =>
        LET key == last.key
            user_id == last.user_id[1]
        IN  /\ last.ret <=>
                  /\ key \in DOMAIN last.keys
                  /\ last.keys[key].activated_by = None
                  /\ RecordsOf(last.users, user_id) = {}
            /\ last.ret =>
                  /\ key \in DOMAIN keys
                  /\ keys[key].activated_by = Some(user_id)
                  /\ \E s \in RecordsOf(users, user_id) : users[s].key_used = key

\* an activation succeeded while other keys and users were in the store
C1_Witness ==
    /\ last.op = "activate_key"
    /\ last.ret
    /\ last.users # EmptyDict
    /\ Cardinality(DOMAIN last.keys) > 1

C3_OneUserOneKey ==
    /\ \A u \in UserIds : Cardinality(RecordsOf(users, u)) <= 1
    /\ \A k \in KeySpace : Cardinality(RecordsUsing(users, k)) <= 1
    /\ (last.op = "activate_key" /\ RecordsOf(last.users, last.user_id[1]) # {})
          => ~last.ret

\* a user holding tok1 has tried another stored, unused tok2
C3_Witness ==
    /\ last.op = "activate_key"
    /\ last.key \in DOMAIN last.keys
    /\ last.keys[last.key].activated_by = None
    /\ \E s \in RecordsOf(last.users, last.user_id[1]) :
          last.users[s].key_used # last.key
    /\ ~last.ret

\* C4: activate_key or delete_key returning false leaves the keys and users
\* dicts and data.json as they were before the call.
C4_FalseChangesNothing ==
    (last.op \in { "activate_key", "delete_key" } /\ ~last.ret) =>
        /\ keys = last.keys
        /\ users = last.users
        /\ disk = last.disk

\* a user who has a record was refused an unused key
C4_Witness ==
    /\ last.op = "activate_key"
    /\ ~last.ret
    /\ last.key \in DOMAIN last.keys
    /\ last.keys[last.key].activated_by = None
    /\ RecordsOf(last.users, last.user_id[1]) # {}

C6_Authorized ==
    /\ \A u \in UserIds :
          is_authorized(u) <=> (u = AdminId \/ RecordsOf(users, u) # {})
    /\ is_authorized(AdminId)

\* a key has been deleted, a user holds a key, the administrator holds none
C6_Witness ==
    /\ last.op = "delete_key"
    /\ last.ret
    /\ RecordsOf(users, AdminId) = {}
    /\ \E u \in UserIds \ {AdminId} : is_authorized(u)
    /\ \E u \in UserIds \ {AdminId} : ~is_authorized(u)

\* C7: every stored key has activated_by and activated_at both None or both set.
C7_BothOrNeither ==
    \A k \in DOMAIN keys :
        (keys[k].activated_by = None) <=> (keys[k].activated_at = None)

\* the store holds a used key and an unused key
C7_Witness ==
    /\ \E k \in DOMAIN keys : keys[k].activated_by # None /\ keys[k].activated_at # None
    /\ \E k \in DOMAIN keys : keys[k].activated_by = None

\* C8: generate_key returns a token that was not stored when it was called,
\* stores it as an unused key and leaves every other key and every user as
\* they were: each call makes the store one token larger.
C8_GenerateContract ==
    last.op = "generate_key" =>
        /\ last.key \notin DOMAIN last.keys
        /\ DOMAIN keys = DOMAIN last.keys \cup { last.key }
        /\ Cardinality(DOMAIN keys) = Cardinality(DOMAIN last.keys) + 1
        /\ keys[last.key].activated_by = None
        /\ keys[last.key].activated_at = None
        /\ \A k \in DOMAIN last.keys : keys[k] = last.keys[k]
        /\ users = last.users

\* a key was generated into a store that held a used key
C8_Witness ==
    /\ last.op = "generate_key"
    /\ \E k \in DOMAIN last.keys : last.keys[k].activated_by # None

\* C9 as stated: a token that delete_key has deleted is never in the store
\* again.
C9_Original == removed \cap DOMAIN keys = {}

\* C9 amended: the only transitions of a key are unused -> used by a
\* successful activate_key and unused/used -> removed by delete_key, and a
\* token enters the store only as a new unused key returned by generate_key;
\* so no activate_key or delete_key brings a deleted token back.
C9_KeyTransitions ==
    [][ \A k \in KeyArgs :
          /\ (k \notin DOMAIN keys /\ k \in DOMAIN keys') =>
                /\ last'.op = "generate_key" /\ last'.key = k
                /\ keys'[k].activated_by = None
          /\ (k \in DOMAIN keys /\ k \notin DOMAIN keys') =>
                /\ last'.op = "delete_key" /\ last'.key = k /\ last'.ret
                /\ k \in removed'
          /\ (k \in DOMAIN keys /\ k \in DOMAIN keys' /\ keys'[k] # keys[k]) =>
                /\ last'.op = "activate_key" /\ last'.key = k /\ last'.ret
                /\ keys[k].activated_by = None
                /\ keys'[k].activated_by # None
                /\ keys'[k].created_at = keys[k].created_at ]_vars

\* a deleted token is in the store again, generated anew and activated
C9_Witness ==
    \E k \in removed : k \in DOMAIN keys /\ keys[k].activated_by # None

\* the handler of user_id is waiting for its reply after activate_key(key)
\* returned ret
Attempted(user_id, key, ret) ==
    /\ task[user_id].handler = "process_key_input"
    /\ task[user_id].key = key
    /\ task[user_id].ret = ret

\* the handler of q starts, calls activate_key(key) and waits for its reply
Attempts(q, key) ==
    /\ task[q] = NoTask
    /\ task'[q].handler = "process_key_input"
    /\ task'[q].key = key

\* C10: when the handlers of two users try the same unused key at the same
\* time, the first activate_key to run returns true and the other false, and
\* the store holds one user record for the key, the winner's: a handler that
\* calls activate_key while the handler of the user holding the key is still
\* waiting for its reply gets false and changes nothing.
C10_OneWinner ==
    [][ \A q \in UserIds, key \in DOMAIN keys :
          Attempts(q, key) =>
              /\ (keys[key].activated_by = None /\ RecordsOf(users, q) = {})
                    => /\ task'[q].ret
                       /\ keys'[key].activated_by = Some(q)
                       /\ RecordsUsing(users', key) = { str(q) }
              /\ \A p \in UserIds \ {q} :
                    (Attempted(p, key, TRUE) /\ keys[key].activated_by = Some(p))
                    => /\ ~task'[q].ret
                       /\ keys' = keys
                       /\ users' = users
                       /\ RecordsUsing(users', key) = { str(p) } ]_vars

\* the handlers of p and q are both waiting for their replies: p's activated
\* the key and q's, called by a user with no record, was refused it
C10_Witness ==
    \E p, q \in UserIds \ {AdminId}, key \in DOMAIN keys :
        /\ p # q
        /\ Attempted(p, key, TRUE)
        /\ Attempted(q, key, FALSE)
        /\ keys[key].activated_by = Some(p)
        /\ RecordsOf(users, q) = {}
        /\ RecordsUsing(users, key) = { str(p) }

\* fetch_homeworks is called on behalf of user_id
FetchStarts(user_id) ==
    /\ task[user_id].handler # "fetch_homeworks"
    /\ task'[user_id].handler = "fetch_homeworks"

\* C11: in every interleaving of the handlers, fetch_homeworks is started only
\* for a user who is authorized when it starts.
C11_FetchOnlyAuthorized ==
    [][ \A u \in UserIds : FetchStarts(u) => is_authorized(u) ]_vars

\* the call that is returning reports success (generate_key: it returns a key)
Succeeded == last.op \in { "generate_key", "activate_key", "delete_key" } /\ last.ret

\* C12: a mutating operation that returns success has written the in-memory
\* state to data.json; and when the file does not hold the in-memory state
\* after a call, the call is reported as failed and the keys and users are
\* what they were before it.
C12_CommitBeforeSuccess ==
    /\ Succeeded => disk = Document(keys, users)
    /\ (last.op # "none" /\ disk # Document(keys, users)) =>
          /\ ~last.ret
          /\ keys = last.keys
          /\ users = last.users

\* C13: when the process is killed at any point of a mutating operation,
\* loading data.json yields either the complete state before the operation or
\* the complete state after it; so never an empty store where keys existed
\* before and after.
C13_CrashKeepsOldOrNew ==
    last.op = "killed" =>
        load(disk) \in { [ keys |-> last.keys, users |-> last.users ],
                         [ keys |-> keys, users |-> users ] }

\* C14: while every write succeeds, a new Storage that loads data.json has
\* the keys and users of the running one, and its is_authorized agrees for
\* every user.
C14_RoundTrip ==
    /\ load(disk) = [ keys |-> keys, users |-> users ]
    /\ \A u \in UserIds :
          is_authorized(u) <=> (u = AdminId \/ str(u) \in DOMAIN load(disk).users)

\* data.json holds a used key with its user and an unused key, written by the
\* call that is returning
C14_Witness ==
    /\ last.op \in { "activate_key", "delete_key" }
    /\ last.ret
    /\ disk.kind = "json"
    /\ \E t \in DOMAIN disk.keys : disk.keys[t].activated_by = JNull
    /\ \E t \in DOMAIN disk.keys : disk.keys[t].activated_by # JNull
    /\ \E s \in DOMAIN disk.users : load(disk).users[s] = users[s]

\* the list _parse_homeworks loops over: data itself, or the list an object
\* wraps; empty for every other shape
ListOf(data) ==
    IF isinstance(data, "list") THEN data[2]
    ELSE IF ~isinstance(data, "object") THEN << >>
    ELSE LET wrapped == { name \in { "payload", "response", "data" } :
                             name \in DOMAIN data[2] /\ bool(data[2][name]) }
             name == IF "payload" \in wrapped THEN "payload"
                     ELSE IF "response" \in wrapped THEN "response" ELSE "data"
         IN  IF wrapped # {} /\ isinstance(data[2][name], "list")
             THEN data[2][name][2] ELSE << >>

\* the element has a date that is a string naming a day of the calendar
GoodDate(e) ==
    /\ "date" \in DOMAIN e[2]
    /\ isinstance(e[2]["date"], "string")
    /\ fromisoformat(e[2]["date"]).raises = None

\* the element is a record with a text and a date
Valid(e) == isinstance(e, "object") /\ homework_text_of(e) # << >> /\ GoodDate(e)

\* the item made of the element is in the result
Appears(e) ==
    \E k \in DOMAIN parse.items :
        /\ parse.items[k].homework_text = homework_text_of(e)
        /\ parse.items[k].homework_date = fromisoformat(e[2]["date"]).value[1]

\* C18: for every payload list, the elements whose date is no strict calendar
\* date (malformed, missing, null, not a string) are left out, every valid
\* sibling appears in the result, and the call does not fail.
C18_BadDateDropsElement ==
    parse.pc # "none" =>
        LET l == ListOf(parse.data)
        IN  /\ parse.raised = None
            /\ Len(parse.items) = Cardinality({ i \in DOMAIN l : Valid(l[i]) })
            /\ \A i \in DOMAIN l : Valid(l[i]) => Appears(l[i])

\* the trimmed texts of the two fields of an element
FieldTexts(e) ==
    { strip(text_of(e[2][name])) :
        name \in { n \in { "homework", "description" } :
                     n \in DOMAIN e[2] /\ e[2][n][1] \in { "string", "number" } } }

\* C20: every record of the result has a non-empty trimmed text that is the
\* trimmed text of the homework or the description field of an element; an
\* element without text is left out, its siblings are not affected, and it
\* never makes the call fail.
C20_TextNeverEmpty ==
    parse.pc # "none" =>
        LET l == ListOf(parse.data)
        IN  /\ \A k \in DOMAIN parse.items :
                  /\ parse.items[k].homework_text # << >>
                  /\ strip(parse.items[k].homework_text) = parse.items[k].homework_text
                  /\ \E i \in DOMAIN l :
                        /\ isinstance(l[i], "object")
                        /\ parse.items[k].homework_text \in FieldTexts(l[i])
            /\ parse.raised = None =>
                  /\ Len(parse.items) = Cardinality({ i \in DOMAIN l : Valid(l[i]) })
                  /\ \A i \in DOMAIN l : Valid(l[i]) => Appears(l[i])
            /\ parse.raised # None =>
                  \E i \in DOMAIN l :
                      /\ isinstance(l[i], "object")
                      /\ homework_text_of(l[i]) # << >>
                      /\ \/ ~GoodDate(l[i])
                         \/ "subject_name" \in DOMAIN l[i][2] /\ l[i][2]["subject_name"] = JNull

\* a call has returned for a list with an element without text, whose date is
\* a calendar date, and a valid sibling
C20_Witness ==
    /\ parse.pc = "returned"
    /\ LET l == ListOf(parse.data)
       IN  /\ \E i \in DOMAIN l :
                 /\ isinstance(l[i], "object")
                 /\ homework_text_of(l[i]) = << >>
                 /\ GoodDate(l[i])
           /\ \E i \in DOMAIN l : Valid(l[i])
           /\ Len(parse.items) = 1

\* fetch_homeworks has returned or raised
Done == fetch.pc \in { "returned", "raised" }

\* the attempt ended in an exception of httpx
NetworkFailure(response) == response.raises # None

\* the attempt ended in a response with an error status
ErrorStatus(response) == response.raises = None /\ response.status_code >= 400

\* the attempt ended in a response without an error status
Success(response) == response.raises = None /\ response.status_code < 400

\* C15: whatever the attempts end in, a call makes at most max_retries
\* attempts and then ends; when every attempt ends in a timeout or a
\* connection error it makes exactly max_retries attempts, returns nothing and
\* raises the error that says the connection could not be made, with the last
\* network error in it.
C15_BoundedAttempts ==
    /\ [](fetch.pc # "none" =>
            /\ Len(fetch.responses) <= fetch.max_retries
            /\ ( /\ Done
                 /\ \A k \in DOMAIN fetch.responses : NetworkFailure(fetch.responses[k]) ) =>
                    /\ Len(fetch.responses) = fetch.max_retries
                    /\ fetch.pc = "raised"
                    /\ fetch.result = None
                    /\ fetch.error = Some(AutheduAPIError(
                          << "could not connect after", fetch.max_retries,
                             "attempts, last error:",
                             Some([ type |-> fetch.responses[fetch.max_retries].raises[1],
                                    raised_in |-> fetch.max_retries - 1 ]) >>, None)))
    /\ (fetch.pc # "none") ~> Done

\* a call with the default max_retries has ended after a timeout and two
\* connection errors
C15_Witness ==
    /\ fetch.pc = "raised"
    /\ fetch.max_retries = DefaultMaxRetries
    /\ Len(fetch.responses) = DefaultMaxRetries
    /\ fetch.responses[1].raises = Some("ReadTimeout")
    /\ \A k \in 2 .. DefaultMaxRetries : fetch.responses[k].raises = Some("ConnectError")
    /\ fetch.slept = << 1, 2 >>

\* the body decodes and _parse_homeworks returns for it
Parses(body) == body # NotJson /\ parse_homeworks(body).raised = None

\* C16: when attempt k gets a response without an error status, after k - 1
\* attempts that ended in network failures, the call returns what
\* _parse_homeworks makes of that response, raises nothing and makes no
\* further attempt.
C16_SuccessAfterFailures ==
    fetch.pc # "none" =>
        \A k \in DOMAIN fetch.responses :
            (Success(fetch.responses[k]) /\ Parses(fetch.responses[k].body)) =>
                /\ \A j \in 1 .. (k - 1) : NetworkFailure(fetch.responses[j])
                /\ k = Len(fetch.responses)
                /\ fetch.pc = "returned"
                /\ fetch.error = None
                /\ fetch.result = Some(parse_homeworks(fetch.responses[k].body).items)

\* a call has returned two items from its third attempt, for a response with
\* a status below 400 that is not 200
C16_Witness ==
    /\ fetch.pc = "returned"
    /\ Len(fetch.responses) = 3
    /\ NetworkFailure(fetch.responses[1])
    /\ fetch.responses[3].status_code = 302
    /\ Len(fetch.result[1]) = 2

\* C17: a response with status 401, 403 or another status from 400 on ends
\* the call on the attempt it arrives in: no attempt and no sleep follows, and
\* the error raised carries the status code and tells 401 from 403 from the
\* other statuses.
C17_StatusNotRetried ==
    fetch.pc # "none" =>
        \A k \in DOMAIN fetch.responses :
            ErrorStatus(fetch.responses[k]) =>
                LET status_code == fetch.responses[k].status_code
                IN  /\ k = Len(fetch.responses)
                    /\ Len(fetch.slept) = k - 1
                    /\ fetch.pc = "raised"
                    /\ fetch.result = None
                    /\ fetch.error # None
                    /\ fetch.error[1].type = "AutheduAPIError"
                    /\ fetch.error[1].status_code = Some(status_code)
                    /\ fetch.error[1].message =
                          IF status_code = 401 THEN << "token expired or invalid (401)" >>
                          ELSE IF status_code = 403 THEN << "access forbidden (403)" >>
                          ELSE << "API error: HTTP", status_code >>

\* a call has raised for a 403 that came on the second attempt
C17_Witness ==
    /\ fetch.pc = "raised"
    /\ Len(fetch.responses) = 2
    /\ ErrorStatus(fetch.responses[2])
    /\ fetch.responses[2].status_code = 403
    /\ fetch.slept = << 1 >>

\* an element of the list has a text and a date that is present and not a
\* string: the defect of C18
DateDefect(data) ==
    LET l == ListOf(data)
    IN  \E i \in DOMAIN l :
            /\ isinstance(l[i], "object")
            /\ homework_text_of(l[i]) # << >>
            /\ "date" \in DOMAIN l[i][2]
            /\ ~isinstance(l[i][2]["date"], "string")

\* C19: a payload that is not of the expected form is never raised as an
\* error: whatever the body of a response without an error status is, the
\* call returns, with the items of the valid elements of the list the body
\* is or wraps, and with nothing for every other shape.
C19_MalformedNeverRaises ==
    fetch.pc # "none" =>
        \A k \in DOMAIN fetch.responses :
            (Success(fetch.responses[k]) /\ ~DateDefect(fetch.responses[k].body)) =>
                LET l == ListOf(fetch.responses[k].body)
                IN  /\ fetch.pc = "returned"
                    /\ fetch.result # None
                    /\ Len(fetch.result[1]) = Cardinality({ i \in DOMAIN l : Valid(l[i]) })

\* the number of times x occurs in items
Count(items, x) == Cardinality({ k \in DOMAIN items : items[k] = x })

\* C21: for every payload the call returns a sequence that is sorted
\* ascending by (homework_date, subject) and is a permutation of the items of
\* the elements that passed the filters on text and date.
C21_SortedPermutation ==
    (parse.pc # "none" /\ ~DateDefect(parse.data)) =>
        LET passed == parse_elements(ListOf(parse.data)).items
        IN  /\ parse.pc = "returned"
            /\ \A k \in 1 .. (Len(parse.items) - 1) :
                  ~less(sort_key(parse.items[k + 1]), sort_key(parse.items[k]))
            /\ Len(parse.items) = Len(passed)
            /\ \A k \in DOMAIN passed :
                  Count(parse.items, passed[k]) = Count(passed, passed[k])

\* the call recorded in last is one of the listings of keys
Listed == last.op \in { "get_all_keys", "get_unused_keys", "get_used_keys" }

\* the stored keys a listing names
KeysIn(listing) == { listing[i].key : i \in DOMAIN listing }

\* C22: a listing of keys has the unused keys before the used ones and, among
\* the keys of one kind, the later created first; every stored key is in
\* exactly one of the listings of the unused and of the used keys.
C22_UnusedFirst ==
    /\ Listed =>
          \A i, j \in DOMAIN last.ret :
              i < j =>
                  \/ ~is_used(last.ret[i]) /\ is_used(last.ret[j])
                  \/ /\ is_used(last.ret[i]) = is_used(last.ret[j])
                     /\ last.ret[i].created_at >= last.ret[j].created_at
    /\ last.op = "get_unused_keys" =>
          /\ KeysIn(last.ret) = { k \in DOMAIN keys : ~is_used(keys[k]) }
          /\ Len(last.ret) = Cardinality(KeysIn(last.ret))
    /\ last.op = "get_used_keys" =>
          /\ KeysIn(last.ret) = { k \in DOMAIN keys : is_used(keys[k]) }
          /\ Len(last.ret) = Cardinality(KeysIn(last.ret))

\* the call of fetch_homeworks of user_id waits for the network or sleeps
Waiting(user_id) == fetch[user_id].pc \in Waits

Groups(e) ==
    IF "materials" \in DOMAIN e[2] /\ isinstance(e[2]["materials"], "list")
    THEN SelectSeq(e[2]["materials"][2], LAMBDA g : isinstance(g, "object"))
    ELSE << >>

\* the positions of the url entries of a group that hold a url
WithUrl(g) ==
    IF "urls" \in DOMAIN g[2] /\ isinstance(g[2]["urls"], "list")
    THEN { n \in DOMAIN g[2]["urls"][2] :
             LET entry == g[2]["urls"][2][n]
             IN  /\ isinstance(entry, "object")
                 /\ "url" \in DOMAIN entry[2]
                 /\ bool(entry[2]["url"]) }
    ELSE {}

\* the title of a group
TitleOf(g) == IF "title" \in DOMAIN g[2] THEN g[2]["title"] ELSE NoTitle

\* the attachments of an item are those of the groups of e: going through the
\* groups that have a url in their order, the k-th attachment has the title
\* of the k-th such group and the first of its urls
AttachmentsOf(e, materials) ==
    LET kept == SelectSeq(Groups(e), LAMBDA g : WithUrl(g) # {})
    IN  /\ Len(materials) = Len(kept)
        /\ \A k \in DOMAIN kept :
              LET n == CHOOSE n \in WithUrl(kept[k]) : \A m \in WithUrl(kept[k]) : n <= m
              IN  materials[k] = [ title |-> TitleOf(kept[k]),
                                   url |-> kept[k][2]["urls"][2][n][2]["url"] ]

\* C24: every record of the result has, for each attachment group of its
\* element that holds a url, one attachment with the title of the group and
\* the first url of the group, in the order of the groups; a group without a
\* url adds nothing.
C24_FirstUrlPerGroup ==
    parse.pc = "returned" =>
        LET l == ListOf(parse.data)
        IN  /\ \A k \in DOMAIN parse.items :
                  \E i \in DOMAIN l :
                      /\ Valid(l[i])
                      /\ parse.items[k].homework_text = homework_text_of(l[i])
                      /\ AttachmentsOf(l[i], parse.items[k].materials)
            /\ \A i \in DOMAIN l :
                  Valid(l[i]) =>
                      \E k \in DOMAIN parse.items :
                          /\ parse.items[k].homework_text = homework_text_of(l[i])
                          /\ AttachmentsOf(l[i], parse.items[k].materials)
                          /\ Len(parse.items[k].materials) <= Len(Groups(l[i]))

\* a record has been returned with three attachments for five groups, the
\* first with the second url entry of its group, the second with the title
\* that stands for a missing one
C24_Witness ==
    /\ parse.pc = "returned"
    /\ \E k \in DOMAIN parse.items :
          /\ Len(parse.items[k].materials) = 3
          /\ parse.items[k].materials[1] =
                [ title |-> JString(<< "t", "1" >>), url |-> JString(<< "u", "1" >>) ]
          /\ parse.items[k].materials[2].title = NoTitle
          /\ parse.items[k].materials[3].url = JString(<< "u", "4" >>)
    /\ \E k \in DOMAIN parse.items : parse.items[k].materials = << >>

\* the items of a reply, in the order of its blocks
Shown(text) == SelectSeq(text, LAMBDA block : block.kind = "item")

\* seq is sub with some of the elements of seq left out: sub[k] is at
\* position at[k] of seq, and at is increasing
Subsequence(sub, seq) ==
    \E at \in [ DOMAIN sub -> DOMAIN seq ] :
        /\ \A k \in DOMAIN sub : seq[at[k]] = sub[k]
        /\ \A j, k \in DOMAIN sub : j < k => at[j] < at[k]

\* C25: for a request for one date the items given to format_homework_list
\* are exactly the fetched records of that date, in the order of the fetch;
\* for a range they are all the fetched records, in the sorted order of the
\* fetch, and the reply shows them in that order.
C25_SingleDateFilter ==
    fetch.pc = "answered" =>
        /\ ~fetch.is_range =>
              /\ \A k \in DOMAIN fetch.items : fetch.items[k].homework_date = fetch.from_date
              /\ \A k \in DOMAIN fetch.fetched :
                    fetch.fetched[k].homework_date = fetch.from_date =>
                        Count(fetch.items, fetch.fetched[k]) = Count(fetch.fetched, fetch.fetched[k])
              /\ Subsequence(fetch.items, fetch.fetched)
        /\ fetch.is_range =>
              /\ fetch.items = fetch.fetched
              /\ \A k \in 1 .. (Len(fetch.items) - 1) :
                    ~less(sort_key(fetch.items[k + 1]), sort_key(fetch.items[k]))
        /\ Shown(fetch.text) = [ k \in DOMAIN fetch.items |-> format_single_homework(fetch.items[k]) ]

\* a request for one date has been answered with one of two fetched records,
\* the other being of another date
C25_Witness ==
    /\ fetch.pc = "answered"
    /\ ~fetch.is_range
    /\ Len(fetch.fetched) = 2
    /\ Len(fetch.items) = 1
    /\ Len(Shown(fetch.text)) = 1

\* the step activates the unused key k for u and changes nothing else in the
\* store
ActivatesFor(u, k) ==
    /\ k \in DOMAIN keys
    /\ ~is_used(keys[k])
    /\ keys'[k].activated_by = Some(u)
    /\ \A j \in DOMAIN keys \ { k } : keys'[j] = keys[j]
    /\ DOMAIN users' = DOMAIN users \cup { str(u) }
    /\ str(u) \notin DOMAIN users
    /\ \A r \in DOMAIN users : users'[r] = users[r]

\* C26: keys are created and deleted for the administrator only: the update
\* of any other user leaves the set of stored keys as it is, and changes the
\* store at most by activating one unused key for that user.
C26_KeysByAdminOnly ==
    [][ \A u \in UserIds \ { AdminId } :
            (last'.op # "none" /\ last'.user_id = Some(u)) =>
                /\ DOMAIN keys' = DOMAIN keys
                /\ \/ keys' = keys /\ users' = users
                   \/ \E k \in DOMAIN keys : ActivatesFor(u, k) ]_vars

\* user 2 has pressed a delete button while the store holds a key that user 1
\* has activated
C26_Witness ==
    /\ last.op = "admin_delete_key"
    /\ last.user_id = Some(2)
    /\ \E k \in DOMAIN keys : keys[k].activated_by = Some(1)

\* the stored keys that are used
UsedKeys == { k \in DOMAIN keys : is_used(keys[k]) }

\* C27: in every state a handler can see, the used keys and the user records
\* correspond one to one: the key_used of every record is a stored key
\* activated by the user of the record, and the user that activated a used key
\* has a record whose key_used is that key; get_user_count is the number of
\* used keys; and a record goes only in a step that deletes its key.
C27_UsedKeysMatchUsers ==
    /\ [](/\ \A r \in DOMAIN users :
                /\ r = str(users[r].user_id)
                /\ users[r].key_used \in DOMAIN keys
                /\ keys[users[r].key_used].activated_by = Some(users[r].user_id)
          /\ \A k \in UsedKeys :
                /\ str(keys[k].activated_by[1]) \in DOMAIN users
                /\ users[str(keys[k].activated_by[1])].key_used = k
          /\ get_user_count = Cardinality(UsedKeys))
    /\ [][ \A r \in DOMAIN users \ DOMAIN users' :
               users[r].key_used \in DOMAIN keys \ DOMAIN keys' ]_vars

\* delete_key has removed one of two used keys with the record of its user,
\* and the other key and its user are still there
C27_Witness ==
    /\ last.op = "delete_key"
    /\ last.ret
    /\ Cardinality(DOMAIN last.users) = 2
    /\ Cardinality(DOMAIN users) = 1
    /\ Cardinality(UsedKeys) = 1

RECURSIVE Sum(_)
\* the sum of a sequence of numbers
Sum(seq) == IF seq = << >> THEN 0 ELSE Head(seq) + Sum(Tail(seq))

\* C28: after the failed attempt number k + 1 (k from 0) that is not the last
\* one the call sleeps 2^k seconds, 1 then 2, and nothing else; it does not
\* sleep after its last attempt; a call with the default of 3 attempts that
\* ends exhausted has slept 3 seconds in all.
C28_BackoffPowersOfTwo ==
    fetch.pc # "none" =>
        /\ \A k \in DOMAIN fetch.slept :
              /\ fetch.slept[k] = 2 ^ (k - 1)
              /\ NetworkFailure(fetch.responses[k])
              /\ k < fetch.max_retries
        /\ fetch.pc \in { "get", "sleep" } => Len(fetch.slept) = Len(fetch.responses)
        /\ Done => Len(fetch.slept) = Len(fetch.responses) - 1
        /\ ( /\ Done
             /\ fetch.max_retries = DefaultMaxRetries
             /\ \A k \in DOMAIN fetch.responses : NetworkFailure(fetch.responses[k]) ) =>
                Sum(fetch.slept) = 3

\* a call with the default max_retries is in its second sleep, of 2 seconds
C28_Witness ==
    /\ fetch.pc = "sleep"
    /\ fetch.max_retries = DefaultMaxRetries
    /\ fetch.slept = << 1, 2 >>
    /\ Sum(fetch.slept) = 3

\* C29: every call of generate_key returns a key: its loop, which draws
\* again after a draw that is stored already, ends.
C29_GenerateReturns ==
    /\ (last.op = "while True") ~> (last.op = "generate_key" /\ last.ret)
    /\ [](last.op = "generate_key" =>
            /\ last.key \in DOMAIN keys
            /\ last.key \notin DOMAIN last.keys
            /\ last.key \in KeySpace)

\* generate_key is in its loop and the key it has drawn is stored already
C29_Witness ==
    /\ last.op = "while True"
    /\ join(<<"-">>, last.parts) \in DOMAIN keys

\* every spelling of every key the generator can return is the key once
\* process_key_input has stripped it and put it in upper case
AllCasesMatch == \A key \in KeySpace : \A text \in Variants(key) : key_of_text(text) = key

\* text is key in some letter case, with at most one whitespace character
\* before it and after it
Spells(text, key) ==
    \E before \in Pads, after \in Pads :
        /\ Len(text) = Len(before) + Len(key) + Len(after)
        /\ SubSeq(text, 1, Len(before)) = before
        /\ SubSeq(text, Len(before) + Len(key) + 1, Len(text)) = after
        /\ \A i \in DOMAIN key : text[Len(before) + i] \in { key[i], LowerChar(key[i]) }

\* user_id sends a spelling of key as a key
SendsKey(user_id, key) ==
    /\ last'.op = "process_key_input"
    /\ last'.user_id = Some(user_id)
    /\ Spells(last'.text, key)

\* C30: a user without a record who sends a stored unused key, in any letter
\* case and with whitespace around it, activates that key; and no two stored
\* keys differ in letter case only.
C30_CaseInsensitiveMatch ==
    /\ [](AllCasesMatch)
    /\ [][ \A user_id \in UserIds, key \in DOMAIN keys :
             (/\ SendsKey(user_id, key)
              /\ keys[key].activated_by = None
              /\ RecordsOf(users, user_id) = {})
             => /\ last'.ret
                /\ keys'[key].activated_by = Some(user_id)
                /\ RecordsOf(users', user_id) = { str(user_id) }
                /\ users'[str(user_id)].key_used = key ]_vars
    /\ [](\A k1, k2 \in DOMAIN keys : upper(k1) = upper(k2) => k1 = k2)

\* a user has activated a key by sending it with its last letter in lower case
\* and a tab after it
C30_Witness ==
    /\ last.op = "process_key_input"
    /\ last.ret
    /\ \E key \in DOMAIN keys :
          /\ last.text = Mixed(key)
          /\ last.text # key
          /\ keys[key].activated_by = last.user_id

=============================================================================
